---------------------------- MODULE Spec2Model ----------------------------
(***************************************************************************)
(* Model of the Visualforce markup extraction engine VfParser.parse       *)
(* (src/src/common/utils/visualForce/vfParser.ts).                        *)
(*                                                                         *)
(* Representation.                                                       *)
(*  - A string is a sequence of characters (one-character TLA+ strings).   *)
(*    A few multi-character lexemes that the code only ever tests as a      *)
(*    whole ("Visualforce.remoting", "$Resource.") stand as one element.   *)
(*  - `undefined` is the sequence Undef.                                   *)
(*  - The raw markup text vfContent is the sequence of its lexical tokens  *)
(*    (opening tag with its attributes, self-closing tag, text run,        *)
(*    closing tag); the regular expressions of the code are translated to  *)
(*    scans over the tokens, and to scans over characters inside attribute *)
(*    values and text runs.                                                *)
(*  - A qualified tag name ns:name is the pair of its two parts; a tag      *)
(*    without namespace has ns = "".                                      *)
(*  - The object tree returned by the XML library is kept as the table of  *)
(*    its elements (parent pointers); ObjKeys and GroupOf give the keys    *)
(*    and values of the JavaScript object the library builds from it.      *)
(***************************************************************************)
EXTENDS Integers, Sequences, FiniteSets, TLC

VARIABLES
    vfContent,       \* the raw text handed to parse (token sequence)
    pc,              \* position inside parse
    parsedData,      \* element table returned by xmlParser.parse
    result,          \* the VfParsedInfo under construction
    frames,          \* call stack of the recursive closure traverse
    pageBlockStack,  \* pageBlockStack of traverseNode (indices into result.pageBlocks)
    compElems,       \* history: for each entry of result.components, the elements it was built from
    threw,           \* history: TRUE once an exception was caught by parse
    pieces,          \* history: the pieces a classifier input text was composed of
    steps,           \* history: the number of steps taken so far
    contentLength,   \* content.length as DocBuilderVf sees it (0: no document builder call)
    calls,           \* the invocations of parse in flight together, each with its locals
    heap,            \* the result objects allocated by those invocations
    aiDisabled,      \* the module variable aiDisabled of AiSafeWrapper.ts
    cache            \* the entries of the cache the AI wrappers read and write

vars == <<vfContent, pc, parsedData, result, frames, pageBlockStack, compElems, threw, pieces, steps,
          contentLength, calls, heap, aiDisabled, cache>>

----------------------------------------------------------------------------
(* Bounds of the model *)

\* largest number of elements below the root element of an input document
MaxElems == 3

----------------------------------------------------------------------------
(* Strings *)

Undef == <<"undefined">>

Range(s) == {s[i] : i \in 1..Len(s)}

Idx(s) == [i \in 1..Len(s) |-> i]

Last(s) == s[Len(s)]

Front(s) == SubSeq(s, 1, Len(s) - 1)

WhiteSpace == {" "}

\* the characters matched by \w
WordChar == {"a", "b", "c", "d", "f", "n", "o", "r", "s", "t", "x", "y",
             "A", "D", "N", "O", "R", "T", "0", "1", "_"}

\* the characters matched by [A-Za-z0-9_] are the same set
AlnumChar == WordChar

\* String.prototype.toUpperCase on one character, for the /i flag
Up(c) == CASE c = "a" -> "A" [] c = "n" -> "N" [] c = "d" -> "D" [] c = "o" -> "O"
           [] c = "r" -> "R" [] c = "t" -> "T" [] OTHER -> c

RECURSIVE TrimLeft(_)
TrimLeft(s) == IF s # <<>> /\ Head(s) \in WhiteSpace THEN TrimLeft(Tail(s)) ELSE s

RECURSIVE TrimRight(_)
TrimRight(s) == IF s # <<>> /\ Last(s) \in WhiteSpace THEN TrimRight(Front(s)) ELSE s

\* String.prototype.trim
Trim(s) == TrimRight(TrimLeft(s))

\* String.prototype.includes for a one-character needle
Includes(s, c) == c \in Range(s)

\* Array.from(new Set(arr)): first occurrences, in order
RECURSIVE Unique(_)
Unique(s) ==
    IF s = <<>> THEN <<>>
    ELSE LET r == Unique(Front(s))
         IN  IF Last(s) \in Range(r) THEN r ELSE Append(r, Last(s))

NoDuplicates(s) == \A i, j \in 1..Len(s) : i # j => s[i] # s[j]

\* String.prototype.split for a one-character separator
RECURSIVE Split(_, _)
Split(s, c) ==
    IF \A i \in 1..Len(s) : s[i] # c THEN <<s>>
    ELSE LET p == CHOOSE i \in 1..Len(s) : s[i] = c /\ \A j \in 1..(i - 1) : s[j] # c
         IN  <<SubSeq(s, 1, p - 1)>> \o Split(SubSeq(s, p + 1, Len(s)), c)

\* Array.prototype.join(".") on the tail of an array of strings
RECURSIVE JoinDot(_)
JoinDot(parts) ==
    IF parts = <<>> THEN <<>>
    ELSE IF Len(parts) = 1 THEN parts[1]
    ELSE parts[1] \o <<".">> \o JoinDot(Tail(parts))


----------------------------------------------------------------------------
(* Raw text: tokens *)

Attr(n, v) == [n |-> n, v |-> v]

\* <ns:name attrs>  /  <ns:name attrs/>  /  text run  /  </ns:name>  (gt: the closing ">" is there)
OpenTok(ns, name, attrs) == [t |-> "open", ns |-> ns, name |-> name, attrs |-> attrs, s |-> <<>>, gt |-> TRUE]
SelfTok(ns, name, attrs) == [t |-> "self", ns |-> ns, name |-> name, attrs |-> attrs, s |-> <<>>, gt |-> TRUE]
TextTok(s) == [t |-> "text", ns |-> "", name |-> "", attrs |-> <<>>, s |-> s, gt |-> TRUE]
CloseTok(ns, name, gt) == [t |-> "close", ns |-> ns, name |-> name, attrs |-> <<>>, s |-> <<>>, gt |-> gt]

IsTagStart(tok) == tok.t \in {"open", "self"}

\* value of the first attribute called n in an attribute list, or Undef
AttrOf(attrs, n) ==
    IF \E i \in 1..Len(attrs) : attrs[i].n = n
    THEN attrs[CHOOSE i \in 1..Len(attrs) : attrs[i].n = n /\ \A j \in 1..(i - 1) : attrs[j].n # n].v
    ELSE Undef

----------------------------------------------------------------------------
(* The XML library (fast-xml-parser) as configured at VfParser.xmlParser:   *)
(* ignoreAttributes false, attributeNamePrefix '', preserveOrder false,     *)
(* alwaysCreateTextNode false, trimValues true.                            *)

Elem(ns, name, attrs, parent, text) ==
    [ns |-> ns, name |-> name, attrs |-> attrs, parent |-> parent, text |-> text]

\* One pass over the tokens with the stack of open elements. The library
\* raises "Closing Tag is not closed." for a closing tag without its ">".
RECURSIVE XmlBuild(_, _, _, _)
XmlBuild(toks, i, open, elems) ==
    IF i > Len(toks) THEN [threw |-> FALSE, elems |-> elems]
    ELSE LET tok == toks[i]
             top == IF open = <<>> THEN 0 ELSE Last(open)
         IN  CASE tok.t = "open" ->
                    XmlBuild(toks, i + 1, Append(open, Len(elems) + 1),
                             Append(elems, Elem(tok.ns, tok.name, tok.attrs, top, <<>>)))
               [] tok.t = "self" ->
                    XmlBuild(toks, i + 1, open,
                             Append(elems, Elem(tok.ns, tok.name, tok.attrs, top, <<>>)))
               [] tok.t = "text" ->
                    XmlBuild(toks, i + 1, open,
                             IF top = 0 THEN elems
                             ELSE [elems EXCEPT ![top].text = @ \o Trim(tok.s)])
               [] OTHER ->
                    IF ~tok.gt THEN [threw |-> TRUE, elems |-> <<>>]
                    ELSE XmlBuild(toks, i + 1, IF open = <<>> THEN open ELSE Front(open), elems)

\* xmlParser.parse(vfContent)
XmlParse(toks) == XmlBuild(toks, 1, <<>>, <<>>)

\* the elements directly below element e, in document order
Children(T, e) == SelectSeq(Idx(T), LAMBDA i : T[i].parent = e)

\* The library gives an element without attributes and without child
\* elements as a plain string (its text, or ""), every other element as an object.
IsStrNode(T, e) == T[e].attrs = <<>> /\ Children(T, e) = <<>>

\* Keys of the JavaScript object of element e, in the library's insertion
\* order: one key per distinct child tag (first occurrence), then "#text",
\* then the attributes under their own names (attributeNamePrefix is '').
TagKey(ns, name) == [k |-> "tag", ns |-> ns, name |-> name]
TextKey == [k |-> "text", ns |-> "", name |-> "#text"]
AttrKey(n) == [k |-> "attr", ns |-> "", name |-> n]

ChildTagKeys(T, e) ==
    LET ch == Children(T, e)
        first == SelectSeq(Idx(ch), LAMBDA i :
                    \A j \in 1..(i - 1) : <<T[ch[j]].ns, T[ch[j]].name>> # <<T[ch[i]].ns, T[ch[i]].name>>)
    IN  [i \in 1..Len(first) |-> TagKey(T[ch[first[i]]].ns, T[ch[first[i]]].name)]

ObjKeys(T, e) ==
    IF IsStrNode(T, e) THEN <<>>
    ELSE ChildTagKeys(T, e)
         \o (IF T[e].text # <<>> THEN <<TextKey>> ELSE <<>>)
         \o [i \in 1..Len(T[e].attrs) |-> AttrKey(T[e].attrs[i].n)]

\* the child elements of e behind the key ns:name; two or more are an array
GroupOf(T, e, key) == SelectSeq(Children(T, e), LAMBDA c : T[c].ns = key.ns /\ T[c].name = key.name)

\* parsedData['apex:page']: the root element when it is the page element, else 0 (undefined)
PageTag(T) == IF Len(T) >= 1 /\ T[1].ns = "apex" /\ T[1].name = "page" THEN 1 ELSE 0

\* JavaScript truthiness of parsedData['apex:page']: undefined and "" are falsy
PageTagTruthy(T) ==
    /\ PageTag(T) # 0
    /\ ~(IsStrNode(T, PageTag(T)) /\ T[PageTag(T)].text = <<>>)

----------------------------------------------------------------------------
(* The result object *)

\* createEmptyResult
createEmptyResult ==
    [ controllerName |-> Undef, customControllerName |-> Undef,
      extensionNames |-> <<>>, components |-> <<>>, fieldReferences |-> <<>>,
      apexExpressions |-> <<>>, formCount |-> 0,
      hasRemoteObjects |-> FALSE, hasStaticResources |-> FALSE,
      templateFragments |-> <<>>, apiVersion |-> Undef, pageLabel |-> Undef,
      inputBindings |-> <<>>, buttonActions |-> <<>>, pageBlocks |-> <<>>,
      actionSupports |-> <<>>, outputPanels |-> <<>>,
      sObjectReferences |-> <<>>, detailedFieldReferences |-> <<>>,
      customComponents |-> <<>>, scripts |-> <<>> ]

\* a context string is the sequence of its dot-separated labels
Label(ns, name) == <<ns, name>>

UnknownContext == <<Label("", "unknown")>>

----------------------------------------------------------------------------
(* Expression Classifier: extractApexExpressions *)

\* The matches of /\{!\s*([^}]+?)\s*\}/g in text from position i on, each as
\* match[1].trim(): a match starts at "{!" and ends at the next "}", and needs
\* at least one character in between.
RECURSIVE ExprMatches(_, _)
ExprMatches(text, i) ==
    LET opening == {k \in i..(Len(text) - 1) : text[k] = "{" /\ text[k + 1] = "!"}
    IN  IF opening = {} THEN <<>>
        ELSE LET o == CHOOSE k \in opening : \A m \in opening : k <= m
                 closing == {j \in (o + 2)..Len(text) : text[j] = "}"}
             IN  IF closing = {} THEN <<>>
                 ELSE LET j == CHOOSE k \in closing : \A m \in closing : k <= m
                      IN  IF j = o + 2 THEN ExprMatches(text, o + 1)
                          ELSE <<Trim(SubSeq(text, o + 2, j - 1))>> \o ExprMatches(text, j + 1)

\* /\w+\s*\(/.test(e)
isFunction(e) ==
    \E p \in 1..Len(e) :
        /\ e[p] = "("
        /\ \E q \in 1..(p - 1) :
              /\ e[q] \in WordChar
              /\ \A r \in (q + 1)..(p - 1) : e[r] \in WhiteSpace

\* /[A-Za-z0-9_]+\.[A-Za-z0-9_.]+/.test(e)
isProperty(e) ==
    \E p \in 2..(Len(e) - 1) :
        /\ e[p] = "."
        /\ e[p - 1] \in AlnumChar
        /\ e[p + 1] \in AlnumChar \cup {"."}

\* \b between positions p-1 and p of e
WordAt(e, p) == p >= 1 /\ p <= Len(e) /\ e[p] \in WordChar

Boundary(e, p) == WordAt(e, p - 1) # WordAt(e, p)

\* the alternatives of (?:AND|OR|NOT|&&|\|\||==|!=|>|<)
BooleanTokens ==
    { <<"A", "N", "D">>, <<"O", "R">>, <<"N", "O", "T">>, <<"&", "&">>, <<"|", "|">>,
      <<"=", "=">>, <<"!", "=">>, <<">">>, <<"<">> }

\* /\b(?:AND|OR|NOT|&&|\|\||==|!=|>|<)\b/i.test(e)
isBooleanExpression(e) ==
    \E tk \in BooleanTokens : \E p \in 1..(Len(e) - Len(tk) + 1) :
        /\ \A k \in 1..Len(tk) : Up(e[p + k - 1]) = tk[k]
        /\ Boundary(e, p)
        /\ Boundary(e, p + Len(tk))

FieldRef(expression, context) ==
    [expression |-> expression, context |-> context, sObjectName |-> Undef, fieldName |-> Undef]

\* variant: without the function-call test
ClassifyIntoNoFunction(res, exprContent, context) ==
    IF isBooleanExpression(exprContent) \/ isProperty(exprContent)
    THEN [res EXCEPT !.apexExpressions = Append(@, exprContent)]
    ELSE [res EXCEPT !.fieldReferences = Append(@, FieldRef(exprContent, context))]

\* the body of the while loop of extractApexExpressions for one match
ClassifyInto(res, exprContent, context) ==
    IF isFunction(exprContent) \/ isBooleanExpression(exprContent)
    THEN [res EXCEPT !.apexExpressions = Append(@, exprContent)]
    ELSE IF isProperty(exprContent)
    THEN [res EXCEPT !.apexExpressions = Append(@, exprContent)]
    ELSE [res EXCEPT !.fieldReferences = Append(@, FieldRef(exprContent, context))]

RECURSIVE ClassifyAll(_, _, _)
ClassifyAll(res, ms, context) ==
    IF ms = <<>> THEN res
    ELSE ClassifyAll(ClassifyInto(res, Head(ms), context), Tail(ms), context)

extractApexExpressions(text, res, context) ==
    IF text = <<>> \/ text = Undef THEN res
    ELSE ClassifyAll(res, ExprMatches(text, 1), context)

\* attrValue.match(/\{!\s*([^}]+?)\s*\}/): the first match, trimmed, or <<>>
FirstExpr(attrValue) ==
    LET ms == ExprMatches(attrValue, 1)
    IN  IF ms = <<>> THEN <<>> ELSE ms[1]

PushIfNew(list, v) == IF v # <<>> /\ v \notin Range(list) THEN Append(list, v) ELSE list

extractInputBindings(attrValue, res) ==
    IF attrValue = <<>> THEN res
    ELSE [res EXCEPT !.inputBindings = PushIfNew(@, FirstExpr(attrValue))]

extractButtonActions(attrValue, res) ==
    IF attrValue = <<>> THEN res
    ELSE [res EXCEPT !.buttonActions = PushIfNew(@, FirstExpr(attrValue))]

\* complexity rank of uniqueAndSortExpressions
Complexity(e) == IF Includes(e, "(") THEN 2 ELSE IF Includes(e, ".") THEN 1 ELSE 0

\* Array.from(new Set(arr)).sort((a, b) => bC - aC); Array.prototype.sort is stable
uniqueAndSortExpressions(arr) ==
    LET unique == Unique(arr)
    IN  SelectSeq(unique, LAMBDA e : Complexity(e) = 2)
        \o SelectSeq(unique, LAMBDA e : Complexity(e) = 1)
        \o SelectSeq(unique, LAMBDA e : Complexity(e) = 0)

----------------------------------------------------------------------------
(* Dependency Resolver: processFieldReferences *)

Truthy(str) == str # Undef /\ str # <<>>

\* variant: nothing is added
AddToSetNothing(list, v) == list

\* Set.prototype.add, the set in insertion order
AddToSet(list, v) == IF v \in Range(list) THEN list ELSE Append(list, v)

\* the loop over result.fieldReferences; acc = [refs, sObjects, detailed]
RECURSIVE ResolveRefs(_, _, _)
ResolveRefs(refs, controllerName, acc) ==
    IF refs = <<>> THEN acc
    ELSE LET ref == Head(refs)
             parts == Split(ref.expression, ".")
             ctlOk == Truthy(controllerName) /\ ~Includes(controllerName, ".")
             next ==
                IF Len(parts) >= 2
                THEN [refs |-> Append(acc.refs, [ref EXCEPT !.sObjectName = parts[1],
                                                            !.fieldName = JoinDot(Tail(parts))]),
                      sObjects |-> AddToSet(acc.sObjects, parts[1]),
                      detailed |-> AddToSet(acc.detailed, ref.expression)]
                ELSE IF ctlOk
                THEN [refs |-> Append(acc.refs, [ref EXCEPT !.sObjectName = controllerName,
                                                            !.fieldName = ref.expression]),
                      sObjects |-> acc.sObjects,
                      detailed |-> AddToSet(acc.detailed, controllerName \o <<".">> \o ref.expression)]
                ELSE [acc EXCEPT !.refs = Append(@, ref)]
         IN  ResolveRefs(Tail(refs), controllerName, next)

processFieldReferences(res) ==
    LET start == [refs |-> <<>>,
                  sObjects |-> IF Truthy(res.controllerName) /\ ~Includes(res.controllerName, ".")
                               THEN <<res.controllerName>> ELSE <<>>,
                  detailed |-> <<>>]
        out == ResolveRefs(res.fieldReferences, res.controllerName, start)
    IN  [res EXCEPT !.fieldReferences = out.refs,
                    !.sObjectReferences = out.sObjects,
                    !.detailedFieldReferences = out.detailed]

----------------------------------------------------------------------------
(* Attribute sub-routine: parseAttributes *)

\* name.startsWith('input') / name.startsWith('select'), over the element names of the model
NamesStartingInput == {"inputField", "inputText", "inputSecret"}
NamesStartingSelect == {"selectList", "selectRadio"}

\* name.includes('commandButton') || name.includes('commandLink') || name === 'button'
NamesOfCommands == {"commandButton", "commandLink", "button"}

IsInputLike(name) == name \in NamesStartingInput \cup NamesStartingSelect

IsCommandLike(name) == name \in NamesOfCommands

\* Object.keys of an array: "0", "1", ...
IdxName(i) == <<"0", "1", "2", "3", "4", "5", "6", "7", "8", "9">>[i + 1]

\* The entries of valueNode that parseAttributes takes for attributes, in
\* Object.keys order. No key starts with '@_' (attributeNamePrefix is ''), so
\* every key goes through the else branch: an entry counts when its value is
\* not an object and its key has no ':' and does not start with '#'.
\* group: the elements behind the key of the component (one: their object or
\* string; several: an array, whose keys are the indices).
AttrCandidates(T, group) ==
    IF Len(group) >= 2
    THEN LET strs == SelectSeq(Idx(group), LAMBDA i : IsStrNode(T, group[i]))
         IN  [k \in 1..Len(strs) |-> Attr(IdxName(strs[k] - 1), T[group[strs[k]]].text)]
    ELSE IF IsStrNode(T, group[1]) THEN <<>>
    ELSE LET e == group[1]
             keys == ObjKeys(T, e)
             ok == SelectSeq(Idx(keys), LAMBDA i :
                      \/ keys[i].k = "attr"
                      \/ /\ keys[i].k = "tag"
                         /\ keys[i].ns = ""
                         /\ Len(GroupOf(T, e, keys[i])) = 1
                         /\ IsStrNode(T, GroupOf(T, e, keys[i])[1]))
         IN  [k \in 1..Len(ok) |->
                 IF keys[ok[k]].k = "attr"
                 THEN Attr(keys[ok[k]].name, AttrOf(T[e].attrs, keys[ok[k]].name))
                 ELSE Attr(keys[ok[k]].name, T[GroupOf(T, e, keys[ok[k]])[1]].text)]

\* attributes[attrName] = attrValue
SetAttr(attrs, a) ==
    IF \E i \in 1..Len(attrs) : attrs[i].n = a.n
    THEN [i \in 1..Len(attrs) |-> IF attrs[i].n = a.n THEN a ELSE attrs[i]]
    ELSE Append(attrs, a)

\* what parseAttributes does with one attribute
AttrEffects(res, a, namespace, name) ==
    LET ctx == <<Label(namespace, name), Label("", a.n)>>
        r1 == extractApexExpressions(a.v, res, ctx)
        r2 == IF a.n = "value" /\ IsInputLike(name) THEN extractInputBindings(a.v, r1) ELSE r1
        r3 == IF a.n = "action" /\ IsCommandLike(name) THEN extractButtonActions(a.v, r2) ELSE r2
    IN  IF a.n = "rendered" THEN extractApexExpressions(a.v, r3, ctx) ELSE r3

RECURSIVE AttrLoop(_, _, _, _)
AttrLoop(cands, acc, namespace, name) ==
    IF cands = <<>> THEN acc
    ELSE AttrLoop(Tail(cands),
                  [attributes |-> SetAttr(acc.attributes, Head(cands)),
                   res |-> AttrEffects(acc.res, Head(cands), namespace, name)],
                  namespace, name)

\* returns the attributes record and the result as left by the extractions
parseAttributes(T, group, namespace, name, res) ==
    AttrLoop(AttrCandidates(T, group), [attributes |-> <<>>, res |-> res], namespace, name)

----------------------------------------------------------------------------
(* Rendering of values as text *)

PreviewLimit == 100
SummaryLimit == 120
SnippetLimit == 200
FallbackPreviewLimit == 100

Ellipsis == <<".", ".", ".">>

Quote == "\""

\* s.substring(0, n) / s.slice(0, n)
Cut(str, n) == SubSeq(str, 1, IF Len(str) < n THEN Len(str) ELSE n)

RECURSIVE Flatten(_)
Flatten(ss) == IF ss = <<>> THEN <<>> ELSE Head(ss) \o Flatten(Tail(ss))

RECURSIVE JoinComma(_)
JoinComma(ss) ==
    IF ss = <<>> THEN <<>>
    ELSE IF Len(ss) = 1 THEN ss[1]
    ELSE ss[1] \o <<",">> \o JoinComma(Tail(ss))

JsonString(str) == <<Quote>> \o str \o <<Quote>>

KeyName(key) == IF key.ns = "" THEN <<key.name>> ELSE <<key.ns, ":", key.name>>

\* JSON.stringify of the library's value for a group of same-tag elements
RECURSIVE JsonOfElem(_, _)
RECURSIVE JsonOfGroup(_, _)
JsonOfGroup(T, group) ==
    IF Len(group) = 1 THEN JsonOfElem(T, group[1])
    ELSE <<"[">> \o JoinComma([i \in 1..Len(group) |-> JsonOfElem(T, group[i])]) \o <<"]">>
JsonOfElem(T, e) ==
    IF IsStrNode(T, e) THEN JsonString(T[e].text)
    ELSE LET keys == ObjKeys(T, e)
             entry(key) ==
                JsonString(KeyName(key)) \o <<":">> \o
                (CASE key.k = "tag" -> JsonOfGroup(T, GroupOf(T, e, key))
                   [] key.k = "text" -> JsonString(T[e].text)
                   [] OTHER -> JsonString(AttrOf(T[e].attrs, key.name)))
         IN  <<"{">> \o JoinComma([i \in 1..Len(keys) |-> entry(keys[i])]) \o <<"}">>

\* extractContentPreview(nodeValue), nodeValue the value behind an outputPanel key
extractContentPreview(T, group) ==
    IF Len(group) = 1 /\ IsStrNode(T, group[1]) THEN Undef
    ELSE IF Len(group) = 1 /\ T[group[1]].text # <<>>
    THEN LET txt == Trim(T[group[1]].text)
         IN  IF Len(txt) > PreviewLimit THEN Cut(txt, PreviewLimit) \o Ellipsis ELSE txt
    ELSE LET str == Cut(JsonOfGroup(T, group), SummaryLimit)
         IN  IF Len(str) = SummaryLimit THEN str \o Ellipsis ELSE str

\* the characters of one token of the raw text
RenderAttrs(attrs) ==
    Flatten([i \in 1..Len(attrs) |-> <<" ", attrs[i].n, "=", Quote>> \o attrs[i].v \o <<Quote>>])

RenderTok(tok) ==
    CASE tok.t = "open" -> <<"<">> \o KeyName(tok) \o RenderAttrs(tok.attrs) \o <<">">>
      [] tok.t = "self" -> <<"<">> \o KeyName(tok) \o RenderAttrs(tok.attrs) \o <<"/", ">">>
      [] tok.t = "text" -> tok.s
      [] OTHER -> <<"<", "/">> \o KeyName(tok) \o (IF tok.gt THEN <<">">> ELSE <<>>)

RenderToks(toks) == Flatten([i \in 1..Len(toks) |-> RenderTok(toks[i])])

----------------------------------------------------------------------------
(* Scans of the raw text *)

TagStarts(toks) == SelectSeq(Idx(toks), LAMBDA i : IsTagStart(toks[i]))

\* variant: the attribute of the first tag of the text only
FirstAttrOfFirstTag(toks, n) ==
    IF TagStarts(toks) = <<>> \/ AttrOf(toks[TagStarts(toks)[1]].attrs, n) = Undef
    THEN [found |-> FALSE, v |-> Undef]
    ELSE [found |-> TRUE, v |-> AttrOf(toks[TagStarts(toks)[1]].attrs, n)]

\* vfContent.match(/name\s*=\s*"([^"]*)"/i): the first attribute of that name anywhere
FirstAttrAnywhere(toks, n) ==
    LET hits == SelectSeq(TagStarts(toks), LAMBDA i : \E k \in 1..Len(toks[i].attrs) : toks[i].attrs[k].n = n)
    IN  IF hits = <<>> THEN [found |-> FALSE, v |-> Undef]
        ELSE [found |-> TRUE, v |-> AttrOf(toks[hits[1]].attrs, n)]

\* (vfContent.match(/<apex:form\b/gi) || []).length
RawFormCount(toks) ==
    Len(SelectSeq(TagStarts(toks), LAMBDA i : toks[i].ns = "apex" /\ toks[i].name = "form"))

\* vfContent.includes(lexeme) for a lexeme of text runs and attribute values
TextIncludes(toks, lexeme) ==
    \E i \in 1..Len(toks) :
        \/ lexeme \in Range(toks[i].s)
        \/ \E k \in 1..Len(toks[i].attrs) : lexeme \in Range(toks[i].attrs[k].v)

\* vfContent.includes('apex:remoteObjectModel') || vfContent.includes('Visualforce.remoting')
RawHasRemoteObjects(toks) ==
    \/ \E i \in 1..Len(toks) : toks[i].ns = "apex" /\ toks[i].name = "remoteObjectModel"
    \/ TextIncludes(toks, "Visualforce.remoting")

\* vfContent.includes('$Resource.') || includes('<apex:stylesheet') || includes('<apex:includeScript')
RawHasStaticResources(toks) ==
    \/ TextIncludes(toks, "$Resource.")
    \/ \E i \in 1..Len(toks) :
          IsTagStart(toks[i]) /\ toks[i].ns = "apex" /\ toks[i].name \in {"stylesheet", "includeScript"}

Component(namespace, name, attributes) ==
    [namespace |-> namespace, name |-> name, attributes |-> attributes]

\* the while loop of _extractBasicVfInfo over the matches of /<([a-zA-Z0-9_-]+):([a-zA-Z0-9_-]+)/g
RECURSIVE BasicComponents(_, _, _, _)
BasicComponents(toks, starts, seen, res) ==
    IF starts = <<>> THEN res
    ELSE LET tok == toks[Head(starts)]
             key == <<tok.ns, tok.name>>
         IN  IF tok.ns = "" \/ key \in seen THEN BasicComponents(toks, Tail(starts), seen, res)
             ELSE BasicComponents(toks, Tail(starts), seen \cup {key},
                    [res EXCEPT !.components = Append(@, Component(tok.ns, tok.name, <<>>)),
                                !.customComponents = IF tok.ns = "c" THEN Append(@, tok.name) ELSE @])

TrimAll(ss) == [i \in 1..Len(ss) |-> Trim(ss[i])]

_extractBasicVfInfo(toks, res) ==
    LET controllerMatch == FirstAttrAnywhere(toks, "standardController")
        extensionsMatch == FirstAttrAnywhere(toks, "extensions")
        r1 == IF controllerMatch.found THEN [res EXCEPT !.controllerName = controllerMatch.v] ELSE res
        r2 == IF extensionsMatch.found
              THEN [r1 EXCEPT !.extensionNames = TrimAll(Split(extensionsMatch.v, ","))] ELSE r1
    IN  BasicComponents(toks, TagStarts(toks), {}, r2)

Script(type, value) == [type |-> type, value |-> value]

\* the first </script> after token i, or 0
ScriptEnd(toks, i) ==
    LET ends == {j \in (i + 1)..Len(toks) :
                    toks[j].t = "close" /\ toks[j].ns = "" /\ toks[j].name = "script" /\ toks[j].gt}
    IN  IF ends = {} THEN 0 ELSE CHOOSE j \in ends : \A k \in ends : j <= k

\* the matches of /<script\b([^>]*)>([\s\S]*?)<\/script>/gi from token i on
RECURSIVE ScriptLoop(_, _, _)
ScriptLoop(toks, i, scripts) ==
    IF i > Len(toks) THEN scripts
    ELSE IF IsTagStart(toks[i]) /\ toks[i].ns = "" /\ toks[i].name = "script" /\ ScriptEnd(toks, i) # 0
    THEN LET j == ScriptEnd(toks, i)
             src == AttrOf(toks[i].attrs, "src")
             body == Trim(RenderToks(SubSeq(toks, i + 1, j - 1)))
             snippet == Cut(body, SnippetLimit) \o (IF Len(body) > SnippetLimit THEN Ellipsis ELSE <<>>)
         IN  ScriptLoop(toks, j + 1,
                 IF Truthy(src) THEN Append(scripts, Script("External URL", src))
                 ELSE IF body # <<>> THEN Append(scripts, Script("Inline Script", snippet))
                 ELSE scripts)
    ELSE ScriptLoop(toks, i + 1, scripts)

\* the matches of /<apex:includeScript\s+[^>]*value\s*=\s*"(.*?)"[^>]*\/?>/gi
IncludeScripts(toks) ==
    LET hits == SelectSeq(TagStarts(toks), LAMBDA i :
                    /\ toks[i].ns = "apex" /\ toks[i].name = "includeScript"
                    /\ Truthy(AttrOf(toks[i].attrs, "value")))
    IN  [k \in 1..Len(hits) |-> Script("Static Resource", AttrOf(toks[hits[k]].attrs, "value"))]

\* variant: without the final deduplication
extractScriptTagsNoDedup(toks, res) ==
    [res EXCEPT !.scripts = ScriptLoop(toks, 1, @) \o IncludeScripts(toks)]

\* lines 397-425; the entries already in result.scripts stay in front
extractScriptTags(toks, res) ==
    [res EXCEPT !.scripts = Unique(ScriptLoop(toks, 1, @) \o IncludeScripts(toks))]

\* one pattern of extractTemplateFragments: <ns:name ... attr="([^"]+)"
FragmentMatches(toks, name, attr, label) ==
    LET hits == SelectSeq(TagStarts(toks), LAMBDA i :
                    /\ toks[i].ns = "apex" /\ toks[i].name = name
                    /\ Truthy(AttrOf(toks[i].attrs, attr)))
    IN  [k \in 1..Len(hits) |-> <<label, ":", " ">> \o AttrOf(toks[hits[k]].attrs, attr)]

extractTemplateFragments(toks) ==
    Unique(FragmentMatches(toks, "composition", "template", "Template")
           \o FragmentMatches(toks, "insert", "name", "Insert Point")
           \o FragmentMatches(toks, "define", "name", "Content Definition")
           \o FragmentMatches(toks, "composition", "define", "Composition Definition"))

\* attr\s*=\s*"\{!([^}]+)\}" : the whole attribute value is one expression; gives m[1].trim()
WholeExpr(v) ==
    IF /\ Len(v) >= 4 /\ v[1] = "{" /\ v[2] = "!" /\ v[Len(v)] = "}"
       /\ \A k \in 3..(Len(v) - 1) : v[k] # "}"
    THEN Trim(SubSeq(v, 3, Len(v) - 1))
    ELSE <<>>

RECURSIVE PushAllNew(_, _)
PushAllNew(list, vs) == IF vs = <<>> THEN list ELSE PushAllNew(PushIfNew(list, Head(vs)), Tail(vs))

\* the tags named by inputRegex and by buttonActionRegex
FallbackInputNames == {"inputText", "inputField", "selectList"}
FallbackButtonNames == {"commandButton", "commandLink", "button"}

extractInputBindingsAndButtonActions(toks, res) ==
    LET ins == SelectSeq(TagStarts(toks), LAMBDA i :
                  toks[i].ns = "apex" /\ toks[i].name \in FallbackInputNames
                  /\ AttrOf(toks[i].attrs, "value") # Undef)
        bts == SelectSeq(TagStarts(toks), LAMBDA i :
                  toks[i].ns = "apex" /\ toks[i].name \in FallbackButtonNames
                  /\ AttrOf(toks[i].attrs, "action") # Undef)
    IN  [res EXCEPT
           !.inputBindings = Unique(PushAllNew(@,
                [k \in 1..Len(ins) |-> WholeExpr(AttrOf(toks[ins[k]].attrs, "value"))])),
           !.buttonActions = Unique(PushAllNew(@,
                [k \in 1..Len(bts) |-> WholeExpr(AttrOf(toks[bts[k]].attrs, "action"))]))]

\* the first </apex:outputPanel> after token i, or 0
PanelEnd(toks, i) ==
    LET ends == {j \in (i + 1)..Len(toks) :
                    toks[j].t = "close" /\ toks[j].ns = "apex" /\ toks[j].name = "outputPanel" /\ toks[j].gt}
    IN  IF ends = {} THEN 0 ELSE CHOOSE j \in ends : \A k \in ends : j <= k

\* the matches of /<apex:outputPanel\b([^>]*)>([\s\S]*?)<\/apex:outputPanel>/gi from token i on
RECURSIVE PanelLoop(_, _, _)
PanelLoop(toks, i, panels) ==
    IF i > Len(toks) THEN panels
    ELSE IF IsTagStart(toks[i]) /\ toks[i].ns = "apex" /\ toks[i].name = "outputPanel" /\ PanelEnd(toks, i) # 0
    THEN LET j == PanelEnd(toks, i)
             body == Trim(RenderToks(SubSeq(toks, i + 1, j - 1)))
         IN  PanelLoop(toks, j + 1, Append(panels,
                 [id |-> AttrOf(toks[i].attrs, "id"), layout |-> AttrOf(toks[i].attrs, "layout"),
                  contentPreview |->
                     IF body # <<>>
                     THEN Cut(body, FallbackPreviewLimit)
                          \o (IF Len(body) > FallbackPreviewLimit THEN Ellipsis ELSE <<>>)
                     ELSE Undef]))
    ELSE PanelLoop(toks, i + 1, panels)

ActionSupport(attrs) ==
    [event |-> AttrOf(attrs, "event"), reRender |-> AttrOf(attrs, "reRender"),
     action |-> AttrOf(attrs, "action"), status |-> AttrOf(attrs, "status")]

extractAjaxInteractions(toks, res) ==
    LET sup == SelectSeq(TagStarts(toks), LAMBDA i : toks[i].ns = "apex" /\ toks[i].name = "actionSupport")
    IN  [res EXCEPT
           !.actionSupports = @ \o [k \in 1..Len(sup) |-> ActionSupport(toks[sup[k]].attrs)],
           !.outputPanels = PanelLoop(toks, 1, @)]

\* extractApexExpressions(vfContent, result): the expression pattern never
\* spans a tag boundary in the texts of the model, so the scan of the whole
\* text is the scan of each attribute value and text run in text order
RECURSIVE ExprOfAttrs(_, _)
ExprOfAttrs(attrs, res) ==
    IF attrs = <<>> THEN res
    ELSE ExprOfAttrs(Tail(attrs), extractApexExpressions(Head(attrs).v, res, UnknownContext))

RECURSIVE ExprOfText(_, _)
ExprOfText(toks, res) ==
    IF toks = <<>> THEN res
    ELSE ExprOfText(Tail(toks),
            extractApexExpressions(Head(toks).s, ExprOfAttrs(Head(toks).attrs, res), UnknownContext))

\* the five calls of the fallback, lines 91-95 and 121-125
FallbackExtraction(toks, res) ==
    extractAjaxInteractions(toks,
      extractInputBindingsAndButtonActions(toks,
        extractScriptTags(toks,
          ExprOfText(toks,
            _extractBasicVfInfo(toks, res)))))

----------------------------------------------------------------------------
(* Input documents *)

Kind(ns, name, attrs, text, container) ==
    [ns |-> ns, name |-> name, attrs |-> attrs, text |-> text, container |-> container]

ExprAB == <<"{", "!", "a", ".", "b", "}">>
ExprS == <<"{", "!", "s", "}">>

\* the elements a document of the model is made of
Kinds ==
    { Kind("apex", "form", <<>>, <<>>, TRUE),
      Kind("apex", "pageBlock", <<Attr("title", <<"T">>)>>, <<>>, TRUE),
      Kind("apex", "inputField", <<Attr("value", ExprAB)>>, <<>>, FALSE),
      Kind("apex", "commandButton", <<Attr("action", ExprS)>>, <<>>, FALSE),
      Kind("c", "w", <<>>, <<>>, FALSE) }

\* how the text ends up at the tree builder: a page, another root element,
\* a page whose closing tag lacks its ">"
Forms == {"page", "noroot", "unterminated"}

Controllers == {Undef, <<"A">>}

\* parent[i] = 0: element i is directly below the root; only containers have children
Parents(n, k) ==
    {q \in [1..n -> 0..(n - 1)] : \A i \in 1..n : q[i] < i /\ (q[i] # 0 => k[q[i]].container)}

Doc(n, k, p, f, c) == [n |-> n, kind |-> k, parent |-> p, form |-> f, ctrl |-> c]

DocChildren(d, i) == SelectSeq([j \in 1..d.n |-> j], LAMBDA j : d.parent[j] = i)

RECURSIVE RenderElem(_, _)
RenderElem(d, i) ==
    LET k == d.kind[i]
        ch == DocChildren(d, i)
    IN  IF ch = <<>> /\ k.text = <<>> THEN <<SelfTok(k.ns, k.name, k.attrs)>>
        ELSE <<OpenTok(k.ns, k.name, k.attrs)>>
             \o (IF k.text # <<>> THEN <<TextTok(k.text)>> ELSE <<>>)
             \o Flatten([j \in 1..Len(ch) |-> RenderElem(d, ch[j])])
             \o <<CloseTok(k.ns, k.name, TRUE)>>

\* the raw text of document d
Render(d) ==
    LET rootName == IF d.form = "noroot" THEN "component" ELSE "page"
        rootAttrs == IF d.ctrl = Undef THEN <<>> ELSE <<Attr("standardController", d.ctrl)>>
        top == DocChildren(d, 0)
    IN  <<OpenTok("apex", rootName, rootAttrs)>>
        \o Flatten([j \in 1..Len(top) |-> RenderElem(d, top[j])])
        \o <<CloseTok("apex", rootName, d.form # "unterminated")>>

\* vfContent is the raw text of a document of at most MaxElems elements
IsInput(text) ==
    \E n \in 0..MaxElems : \E k \in [1..n -> Kinds] : \E p \in Parents(n, k) :
        \E f \in Forms : \E c \in Controllers : text = Render(Doc(n, k, p, f, c))

----------------------------------------------------------------------------
(* parse: the tree path *)

\* pageTag['@_name']: the property of that very name of the page object
PageProp(T, name) ==
    IF PageTag(T) = 0 \/ IsStrNode(T, PageTag(T)) THEN Undef
    ELSE AttrOf(T[PageTag(T)].attrs, name)

assignPageAttributesFromXml(T, res, toks) ==
    LET ctl == PageProp(T, "@_standardController")
        cus == PageProp(T, "@_controller")
        ext == PageProp(T, "@_extensions")
        api == PageProp(T, "@_apiVersion")
        lab == PageProp(T, "@_label")
    IN  [res EXCEPT
           !.controllerName = IF Truthy(ctl) THEN ctl ELSE @,
           !.customControllerName = IF Truthy(cus) THEN cus ELSE @,
           !.extensionNames = IF Truthy(ext) THEN TrimAll(Split(ext, ",")) ELSE @,
           !.apiVersion = IF Truthy(api) THEN api ELSE @,
           !.pageLabel = IF Truthy(lab) THEN lab ELSE @,
           !.formCount = RawFormCount(toks),
           !.hasRemoteObjects = RawHasRemoteObjects(toks),
           !.hasStaticResources = RawHasStaticResources(toks)]

\* a call of the closure traverse: the node (an object e, or an array items),
\* the next key, the context, and whether the caller pops the block stack on return
ObjFrame(e, ctx, pop) ==
    [kind |-> "obj", e |-> e, items |-> <<>>, i |-> 1, ctx |-> ctx, pop |-> pop, asNode |-> FALSE]

ArrFrame(items, ctx, pop, asNode) ==
    [kind |-> "arr", e |-> 0, items |-> items, i |-> 1, ctx |-> ctx, pop |-> pop, asNode |-> asNode]

\* variant: the outermost block instead of the innermost
CurrentBlockOutermost(stack) == stack[1]

\* pageBlockStack[pageBlockStack.length - 1]
CurrentBlock(stack) == Last(stack)

\* currentBlock.components.push(componentUsage), lines 244-247
AttachToBlock(res, stack, cidx) ==
    IF Len(stack) > 0
    THEN [res EXCEPT !.pageBlocks[CurrentBlock(stack)].components = Append(@, cidx)]
    ELSE res

\* variant: a pageBlock is attached to the enclosing block like any other component
VisitComponentAttachingBlocks(T, res, group, key, stack) ==
    LET pa == parseAttributes(T, group, key.ns, key.name, res)
        attributes == pa.attributes
        r1 == [pa.res EXCEPT
                 !.components = Append(@, Component(key.ns, key.name, attributes)),
                 !.customComponents = IF key.ns = "c" THEN Append(@, key.name) ELSE @]
        cidx == Len(r1.components)
    IN  IF key.ns = "apex" /\ key.name = "form"
        THEN AttachToBlock([r1 EXCEPT !.formCount = @ + 1], stack, cidx)
        ELSE IF key.ns = "apex" /\ key.name = "pageBlock"
        THEN AttachToBlock([r1 EXCEPT !.pageBlocks = Append(@,
                 [title |-> AttrOf(attributes, "title"), id |-> AttrOf(attributes, "id"),
                  components |-> <<>>])], stack, cidx)
        ELSE IF key.ns = "apex" /\ key.name = "actionSupport"
        THEN AttachToBlock([r1 EXCEPT !.actionSupports = Append(@, ActionSupport(attributes))], stack, cidx)
        ELSE IF key.ns = "apex" /\ key.name = "outputPanel"
        THEN AttachToBlock([r1 EXCEPT !.outputPanels = Append(@,
                 [id |-> AttrOf(attributes, "id"), layout |-> AttrOf(attributes, "layout"),
                  contentPreview |-> extractContentPreview(T, group)])], stack, cidx)
        ELSE AttachToBlock(r1, stack, cidx)

\* lines 188-248 for a key ns:name: the result after the component is recorded
VisitComponent(T, res, group, key, stack) ==
    LET pa == parseAttributes(T, group, key.ns, key.name, res)
        attributes == pa.attributes
        r1 == [pa.res EXCEPT
                 !.components = Append(@, Component(key.ns, key.name, attributes)),
                 !.customComponents = IF key.ns = "c" THEN Append(@, key.name) ELSE @]
        cidx == Len(r1.components)
    IN  IF key.ns = "apex" /\ key.name = "form"
        THEN AttachToBlock([r1 EXCEPT !.formCount = @ + 1], stack, cidx)
        ELSE IF key.ns = "apex" /\ key.name = "pageBlock"
        THEN [r1 EXCEPT !.pageBlocks = Append(@,
                 [title |-> AttrOf(attributes, "title"), id |-> AttrOf(attributes, "id"),
                  components |-> <<>>])]
        ELSE IF key.ns = "apex" /\ key.name = "actionSupport"
        THEN AttachToBlock([r1 EXCEPT !.actionSupports = Append(@, ActionSupport(attributes))], stack, cidx)
        ELSE IF key.ns = "apex" /\ key.name = "outputPanel"
        THEN AttachToBlock([r1 EXCEPT !.outputPanels = Append(@,
                 [id |-> AttrOf(attributes, "id"), layout |-> AttrOf(attributes, "layout"),
                  contentPreview |-> extractContentPreview(T, group)])], stack, cidx)
        ELSE AttachToBlock(r1, stack, cidx)

\* variant: the exception leaves parse
OnThrowEscapes == "escaped"

\* where control goes when the try block of parse throws (the catch of line 119)
OnThrow == "catch"

\* lines 112-118
PostProcess(res) ==
    processFieldReferences(
        [res EXCEPT !.apexExpressions = uniqueAndSortExpressions(@),
                    !.inputBindings = Unique(@),
                    !.buttonActions = Unique(@),
                    !.customComponents = Unique(@),
                    !.sObjectReferences = Unique(@),
                    !.detailedFieldReferences = Unique(@)])

----------------------------------------------------------------------------
(* The state machine of one call of parse *)

Init ==
    /\ IsInput(vfContent)
    /\ pc = "start"
    /\ parsedData = <<>>
    /\ result = createEmptyResult
    /\ frames = <<>>
    /\ pageBlockStack = <<>>
    /\ compElems = <<>>
    /\ threw = FALSE
    /\ pieces = <<>>
    /\ steps = 0
    /\ contentLength = 0
    /\ calls = <<>>
    /\ heap = <<>>
    /\ aiDisabled = FALSE
    /\ cache = <<>>

\* the state of one call of parse, as a record
View ==
    [vfContent |-> vfContent, pc |-> pc, parsedData |-> parsedData, result |-> result,
     frames |-> frames, pageBlockStack |-> pageBlockStack, compElems |-> compElems, threw |-> threw]

\* the call is in state v after the step
Becomes(v) ==
    /\ vfContent' = v.vfContent
    /\ pc' = v.pc
    /\ parsedData' = v.parsedData
    /\ result' = v.result
    /\ frames' = v.frames
    /\ pageBlockStack' = v.pageBlockStack
    /\ compElems' = v.compElems
    /\ threw' = v.threw

\* line 87 and the test of line 89
ParseXmlOf(v) ==
    LET p == XmlParse(v.vfContent)
    IN  IF p.threw
        THEN [v EXCEPT !.pc = OnThrow, !.threw = TRUE]
        ELSE [v EXCEPT !.parsedData = p.elems,
                       !.pc = IF PageTagTruthy(p.elems) THEN "assign" ELSE "fallback"]

ParseXml ==
    /\ pc = "start"
    /\ \E v \in {ParseXmlOf(View)} : Becomes(v)
    /\ steps' = steps + 1
    /\ UNCHANGED <<pieces, contentLength, calls, heap, aiDisabled, cache>>

\* the five extractions of the fallback and the return
FallbackOf(v) == [v EXCEPT !.result = FallbackExtraction(v.vfContent, @), !.pc = "done"]

\* lines 90-96: no apex:page in the parsed data
FallbackNoRoot ==
    /\ pc = "fallback"
    /\ \E v \in {FallbackOf(View)} : Becomes(v)
    /\ steps' = steps + 1
    /\ UNCHANGED <<pieces, contentLength, calls, heap, aiDisabled, cache>>

\* lines 119-126: the catch block
FallbackCatch ==
    /\ pc = "catch"
    /\ \E v \in {FallbackOf(View)} : Becomes(v)
    /\ steps' = steps + 1
    /\ UNCHANGED <<pieces, contentLength, calls, heap, aiDisabled, cache>>

AssignPageAttributesOf(v) ==
    [v EXCEPT !.result = assignPageAttributesFromXml(v.parsedData, @, v.vfContent), !.pc = "prescan"]

\* line 102
AssignPageAttributes ==
    /\ pc = "assign"
    /\ \E v \in {AssignPageAttributesOf(View)} : Becomes(v)
    /\ steps' = steps + 1
    /\ UNCHANGED <<pieces, contentLength, calls, heap, aiDisabled, cache>>

PreScanOf(v) ==
    [v EXCEPT !.result = extractScriptTags(v.vfContent,
                            [@ EXCEPT !.templateFragments = extractTemplateFragments(v.vfContent)]),
              !.frames = <<ObjFrame(PageTag(v.parsedData), <<Label("apex", "page")>>, FALSE)>>,
              !.pc = "traverse"]

\* lines 105-106, and the first call traverse(root, rootContext) of line 269
PreScan ==
    /\ pc = "prescan"
    /\ \E v \in {PreScanOf(View)} : Becomes(v)
    /\ steps' = steps + 1
    /\ UNCHANGED <<pieces, contentLength, calls, heap, aiDisabled, cache>>

\* the number of keys (of an object) or items (of an array) of the node of a call
FrameLen(T, f) == IF f.kind = "obj" THEN Len(ObjKeys(T, f.e)) ELSE Len(f.items)

\* the innermost call of traverse is at a key of an object / at an item of an
\* array / past the last one
AtObjKeyOf(v) ==
    /\ v.pc = "traverse"
    /\ v.frames # <<>>
    /\ Last(v.frames).kind = "obj"
    /\ Last(v.frames).i <= FrameLen(v.parsedData, Last(v.frames))

AtArrItemOf(v) ==
    /\ v.pc = "traverse"
    /\ v.frames # <<>>
    /\ Last(v.frames).kind = "arr"
    /\ Last(v.frames).i <= FrameLen(v.parsedData, Last(v.frames))

AtReturnOf(v) ==
    /\ v.pc = "traverse"
    /\ v.frames # <<>>
    /\ Last(v.frames).i > FrameLen(v.parsedData, Last(v.frames))

AtObjKey == AtObjKeyOf(View)

AtArrItem == AtArrItemOf(View)

AtReturn == AtReturnOf(View)

TraverseKeyOf(v) ==
    LET T == v.parsedData
        f == Last(v.frames)
        key == ObjKeys(T, f.e)[f.i]
        advanced == [v.frames EXCEPT ![Len(v.frames)].i = @ + 1]
        newContext == Append(f.ctx, Label(key.ns, key.name))
        group == IF key.k = "tag" THEN GroupOf(T, f.e, key) ELSE <<>>
        isComponent == key.k = "tag" /\ key.ns # "" /\ key.name # ""
        isBlock == isComponent /\ key.ns = "apex" /\ key.name = "pageBlock"
        children ==
           IF Len(group) >= 2 THEN <<ArrFrame(group, newContext, isBlock, isBlock)>>
           ELSE IF Len(group) = 1 /\ (isBlock \/ ~IsStrNode(T, group[1]))
           THEN <<ObjFrame(group[1], newContext, isBlock)>>
           ELSE <<>>
    IN  [v EXCEPT
           !.result =
               IF isComponent THEN VisitComponent(T, v.result, group, key, v.pageBlockStack)
               ELSE IF key.k = "text" /\ Trim(T[f.e].text) # <<>>
               THEN extractApexExpressions(T[f.e].text, v.result, f.ctx)
               ELSE v.result,
           !.compElems = IF isComponent THEN Append(@, group) ELSE @,
           !.pageBlockStack = IF isBlock THEN Append(@, Len(v.result.pageBlocks) + 1) ELSE @,
           !.frames = advanced \o children]

\* one iteration of the loop "for (const key of Object.keys(node))", lines 181-266
TraverseKey ==
    /\ AtObjKey
    /\ \E v \in {TraverseKeyOf(View)} : Becomes(v)
    /\ steps' = steps + 1
    /\ UNCHANGED <<pieces, contentLength, calls, heap, aiDisabled, cache>>

TraverseItemOf(v) ==
    LET T == v.parsedData
        f == Last(v.frames)
        item == f.items[f.i]
        ctx == IF f.asNode THEN Append(f.ctx, Label("", IdxName(f.i - 1))) ELSE f.ctx
        advanced == [v.frames EXCEPT ![Len(v.frames)].i = @ + 1]
    IN  [v EXCEPT !.frames = IF IsStrNode(T, item) THEN advanced
                             ELSE Append(advanced, ObjFrame(item, ctx, FALSE))]

\* one item of an array value: "for (const item of value) traverse(item, ...)",
\* or one index key of an array traversed as a node (the value of a pageBlock key)
TraverseItem ==
    /\ AtArrItem
    /\ \E v \in {TraverseItemOf(View)} : Becomes(v)
    /\ steps' = steps + 1
    /\ UNCHANGED <<pieces, contentLength, calls, heap, aiDisabled, cache>>

TraverseReturnOf(v) ==
    [v EXCEPT !.pageBlockStack = IF Last(v.frames).pop THEN Front(@) ELSE @,
              !.frames = Front(@)]

\* a call of traverse returns; after the children of a pageBlock, pageBlockStack.pop()
TraverseReturn ==
    /\ AtReturn
    /\ \E v \in {TraverseReturnOf(View)} : Becomes(v)
    /\ steps' = steps + 1
    /\ UNCHANGED <<pieces, contentLength, calls, heap, aiDisabled, cache>>

FinishOf(v) == [v EXCEPT !.result = PostProcess(@), !.pc = "done"]

\* lines 111-118 and the return of line 128
Finish ==
    /\ pc = "traverse"
    /\ frames = <<>>
    /\ \E v \in {FinishOf(View)} : Becomes(v)
    /\ steps' = steps + 1
    /\ UNCHANGED <<pieces, contentLength, calls, heap, aiDisabled, cache>>

Next ==
    \/ ParseXml
    \/ FallbackNoRoot
    \/ FallbackCatch
    \/ AssignPageAttributes
    \/ PreScan
    \/ TraverseKey
    \/ TraverseItem
    \/ TraverseReturn
    \/ Finish

Spec == Init /\ [][Next]_vars

----------------------------------------------------------------------------
(* parse on pages with output panels. The names the summary of a panel       *)
(* shows (the child tag c:w, the attribute x) have one character per         *)
(* element of the sequence, so that the length of the modelled summary is    *)
(* the length of the JSON text.                                              *)

MaxPanelElems == 2

\* a string of n characters
Xs(n) == [i \in 1..n |-> "x"]

\* <apex:outputPanel>xxxxx</apex:outputPanel>; a panel with an attribute and a
\* text of 100 / of 101 characters; a panel whose summary {"x":"..."} has
\* 119 / 120 characters when it has no child; <c:w/>
PanelKinds ==
    { Kind("apex", "outputPanel", <<>>, Xs(5), FALSE),
      Kind("apex", "outputPanel", <<Attr("x", <<"v">>)>>, Xs(PreviewLimit), FALSE),
      Kind("apex", "outputPanel", <<Attr("x", <<"v">>)>>, Xs(PreviewLimit + 1), FALSE),
      Kind("apex", "outputPanel", <<Attr("x", Xs(SummaryLimit - 9))>>, <<>>, TRUE),
      Kind("apex", "outputPanel", <<Attr("x", Xs(SummaryLimit - 8))>>, <<>>, TRUE),
      Kind("c", "w", <<>>, <<>>, FALSE) }

IsPanelInput(text) ==
    \E n \in 0..MaxPanelElems : \E k \in [1..n -> PanelKinds] : \E p \in Parents(n, k) :
        \E f \in Forms : \E c \in Controllers : text = Render(Doc(n, k, p, f, c))

InitPanels ==
    /\ IsPanelInput(vfContent)
    /\ pc = "start"
    /\ parsedData = <<>>
    /\ result = createEmptyResult
    /\ frames = <<>>
    /\ pageBlockStack = <<>>
    /\ compElems = <<>>
    /\ threw = FALSE
    /\ pieces = <<>>
    /\ steps = 0
    /\ contentLength = 0
    /\ calls = <<>>
    /\ heap = <<>>
    /\ aiDisabled = FALSE
    /\ cache = <<>>

SpecPanels == InitPanels /\ [][Next]_vars

----------------------------------------------------------------------------
(* processFieldReferences on the references the classifier creates, for a    *)
(* controller name that is unset, empty, plain or dotted.                    *)

MaxRefs == 2

\* expressions the classifier emits as FieldReferences: without a dot, and
\* with a dot that the property test of line 334 does not match
RefExprs ==
    { <<"s">>, <<"t">>, <<"a", ".">>, <<".", "b">>, <<"a", ".", " ", "b">>,
      <<"a", ".", " ", "b", ".", " ", "c">> }

ControllerNames == {Undef, <<>>, <<"A">>, <<"A", ".", "B">>}

\* the text {!e1}{!e2}... of a sequence of expressions
RefText(es) == Flatten([i \in 1..Len(es) |-> <<"{", "!">> \o es[i] \o <<"}">>])

\* the references of the text as the classifier creates them
ClassifiedRefs(text) == extractApexExpressions(text, createEmptyResult, UnknownContext).fieldReferences

InitResolver ==
    /\ \E n \in 0..MaxRefs : \E es \in [1..n -> RefExprs] : vfContent = <<TextTok(RefText(es))>>
    /\ \E c \in ControllerNames :
          result = [createEmptyResult EXCEPT !.controllerName = c,
                                            !.fieldReferences = ClassifiedRefs(vfContent[1].s)]
    /\ pc = "resolver"
    /\ parsedData = <<>>
    /\ frames = <<>>
    /\ pageBlockStack = <<>>
    /\ compElems = <<>>
    /\ threw = FALSE
    /\ pieces = <<>>
    /\ steps = 0
    /\ contentLength = 0
    /\ calls = <<>>
    /\ heap = <<>>
    /\ aiDisabled = FALSE
    /\ cache = <<>>

\* line 118
Resolve ==
    /\ pc = "resolver"
    /\ result' = processFieldReferences(result)
    /\ pc' = "resolved"
    /\ steps' = steps + 1
    /\ UNCHANGED <<vfContent, parsedData, frames, pageBlockStack, compElems, threw, pieces,
                   contentLength, calls, heap, aiDisabled, cache>>

NextResolver == Resolve

SpecResolver == InitResolver /\ [][NextResolver]_vars

----------------------------------------------------------------------------
(* safeAiCall (AiSafeWrapper.ts, lines 3-58): calls in flight together. An   *)
(* async function runs without interruption from one await to the next, so   *)
(* a call takes one step when it is entered, one when the promise of aiCall  *)
(* settles and one when the timer of the back-off fires. The cache manager   *)
(* is a store of entries with a saved copy: get reads an entry, set writes   *)
(* it, save copies the entries to the saved copy.                            *)

MaxAiCalls == 2

\* const { maxRetries = 3 } = options, line 12
DefaultMaxRetries == 3

CacheKeys == {"k1", "k2"}

CachedText == <<"o", "l", "d">>
AiText == <<"n", "e", "w">>
DefaultText == <<"d">>

\* what a settled aiCall gives: a value (AiText, or the empty string), or an
\* error with err.response.status and the words of err.message
AiValue(v) == [kind |-> "value", value |-> v, status |-> 0, words |-> {}]
AiError(status, words) == [kind |-> "error", value |-> Undef, status |-> status, words |-> words]

Outcomes ==
    { AiValue(AiText), AiValue(<<>>),
      AiError(401, {}), AiError(0, {"unauthorized"}),
      AiError(429, {}), AiError(0, {"timeout"}), AiError(500, {}) }

\* cacheManager.get / set / save
cacheGet(ch, key) == ch.entries[key]
cacheSet(ch, key, v) == [ch EXCEPT !.entries[key] = v]
cacheSave(ch) == [ch EXCEPT !.saved = ch.entries]

\* line 38: status === 401 || /unauthorized/i.test(message)
isUnauthorized(o) == o.status = 401 \/ "unauthorized" \in o.words

\* line 44: status === 429 || /rate/i.test(message) || /timeout/i.test(message)
isRetryable(o) == o.status = 429 \/ "rate" \in o.words \/ "timeout" \in o.words

\* one invocation of safeAiCall: its arguments, its locals, and the history
\* of what it did
NewAiCall(cacheKey, options) ==
    [cacheKey |-> cacheKey, options |-> options, defaultValue |-> DefaultText,
     pc |-> "new", attempt |-> 0, returned |-> FALSE, ret |-> Undef,
     invoked |-> 0, invokedDisabled |-> 0, failures |-> 0, got |-> Undef,
     saw401 |-> FALSE, enteredDisabled |-> FALSE,
     cacheAtEntry |-> Undef, cacheBefore |-> Undef, cacheAfter |-> Undef, writes |-> <<>>]

\* the state a step of a call works on: the call, the flag and the cache
AiState(c) == [c |-> c, aiDisabled |-> aiDisabled, cache |-> cache]

\* options = {} or options = { maxRetries: n }, as <<>> or <<n>>
retriesOf(c) == IF c.options = <<>> THEN DefaultMaxRetries ELSE c.options[1]

\* variant: one attempt more
attemptsLeftOneMore(c) == c.attempt <= retriesOf(c) + 1

\* the loop condition of line 25
attemptsLeft(c) == c.attempt <= retriesOf(c)

\* return v
ReturnOf(st, v) ==
    [st EXCEPT !.c.pc = "done", !.c.returned = TRUE, !.c.ret = v, !.c.cacheAfter = st.cache]

\* return cacheManager.get(cacheKey) || defaultValue, lines 17 and 57
ReturnCacheOrDefault(st) ==
    ReturnOf(st, IF Truthy(cacheGet(st.cache, st.c.cacheKey))
                 THEN cacheGet(st.cache, st.c.cacheKey) ELSE st.c.defaultValue)

\* variant: the result is set but not saved
StoreWithoutSave(ch, key, v) == cacheSet(ch, key, v)

\* cacheManager.set(cacheKey, result); cacheManager.save(), lines 29-30
StoreResult(ch, key, v) == cacheSave(cacheSet(ch, key, v))

\* the head of the loop with the attempt number a: aiCall() is invoked and
\* awaited (line 27), or the loop is left (line 57)
LoopHead(st, a) ==
    LET c == [st.c EXCEPT !.attempt = a]
    IN  IF attemptsLeft(c)
        THEN [st EXCEPT !.c = [c EXCEPT !.pc = "awaiting",
                                        !.invoked = @ + 1,
                                        !.invokedDisabled = @ + (IF st.aiDisabled THEN 1 ELSE 0)]]
        ELSE ReturnCacheOrDefault([st EXCEPT !.c = c])

\* lines 12-27: the call up to its first await, or to its return
EnterOf(st) ==
    LET c == [st.c EXCEPT !.cacheAtEntry = cacheGet(st.cache, st.c.cacheKey),
                          !.cacheBefore = st.cache,
                          !.enteredDisabled = st.aiDisabled]
        s1 == [st EXCEPT !.c = c]
    IN  IF st.aiDisabled THEN ReturnCacheOrDefault(s1)
        ELSE IF Truthy(cacheGet(st.cache, c.cacheKey)) THEN ReturnOf(s1, cacheGet(st.cache, c.cacheKey))
        ELSE LoopHead(s1, 1)

\* lines 27-52: the promise of aiCall settled with o
SettleOf(st, o) ==
    IF o.kind = "value"
    THEN IF Truthy(o.value)
         THEN LET ch == StoreResult(st.cache, st.c.cacheKey, o.value)
              IN  ReturnOf([st EXCEPT !.cache = ch,
                                      !.c.got = o.value,
                                      !.c.writes = IF ch # st.cache THEN Append(@, ch) ELSE @],
                           o.value)
         ELSE LoopHead([st EXCEPT !.c.failures = @ + 1], st.c.attempt + 1)
    ELSE IF isUnauthorized(o)
    THEN ReturnCacheOrDefault([st EXCEPT !.aiDisabled = TRUE, !.c.saw401 = TRUE])
    ELSE IF isRetryable(o)
    THEN [st EXCEPT !.c.pc = "sleeping", !.c.failures = @ + 1]
    ELSE LoopHead([st EXCEPT !.c.failures = @ + 1], st.c.attempt + 1)

\* line 48-49: the timer fired, continue
WakeOf(st) == LoopHead(st, st.c.attempt + 1)

AiBecomes(i, st) ==
    /\ calls' = [calls EXCEPT ![i] = st.c]
    /\ aiDisabled' = st.aiDisabled
    /\ cache' = st.cache

InitAi ==
    /\ \E n \in 1..MaxAiCalls : \E ks \in [1..n -> CacheKeys] : \E ms \in [1..n -> {<<>>, <<1>>}] :
          calls = [i \in 1..n |-> NewAiCall(ks[i], ms[i])]
    /\ \E es \in [CacheKeys -> {Undef, CachedText}] : cache = [entries |-> es, saved |-> es]
    /\ aiDisabled = FALSE
    /\ pc = "ai"
    /\ vfContent = <<>>
    /\ parsedData = <<>>
    /\ result = createEmptyResult
    /\ frames = <<>>
    /\ pageBlockStack = <<>>
    /\ compElems = <<>>
    /\ threw = FALSE
    /\ pieces = <<>>
    /\ steps = 0
    /\ contentLength = 0
    /\ heap = <<>>

AiEnter(i) ==
    /\ calls[i].pc = "new"
    /\ \E st \in {EnterOf(AiState(calls[i]))} : AiBecomes(i, st)
    /\ UNCHANGED <<vfContent, pc, parsedData, result, frames, pageBlockStack, compElems, threw,
                   pieces, steps, contentLength, heap>>

AiSettle(i) ==
    /\ calls[i].pc = "awaiting"
    /\ \E o \in Outcomes : \E st \in {SettleOf(AiState(calls[i]), o)} : AiBecomes(i, st)
    /\ UNCHANGED <<vfContent, pc, parsedData, result, frames, pageBlockStack, compElems, threw,
                   pieces, steps, contentLength, heap>>

AiWake(i) ==
    /\ calls[i].pc = "sleeping"
    /\ \E st \in {WakeOf(AiState(calls[i]))} : AiBecomes(i, st)
    /\ UNCHANGED <<vfContent, pc, parsedData, result, frames, pageBlockStack, compElems, threw,
                   pieces, steps, contentLength, heap>>

NextAi ==
    \/ \E i \in 1..Len(calls) : AiEnter(i)
    \/ \E i \in 1..Len(calls) : AiSettle(i)
    \/ \E i \in 1..Len(calls) : AiWake(i)

SpecAi == InitAi /\ [][NextAi]_vars

----------------------------------------------------------------------------
(* DocBuilderVf.completeDocWithAiDescription (AiSafeWrapper.ts, lines        *)
(* 641-674), called by build (line 180) after parserFallbackMarkdown is set  *)
(* (line 174), for one page after another. getCache gives the entry of a key *)
(* or the default it is handed, setCache writes the entry. A document is     *)
(* the sequence of its lines, "fence" is the code fence of markdown.        *)

MaxBuilds == 3

Pages == {"P", "Q"}

\* the description the AI generation returns, when it returns one
AiDescription == <<"A", "I">>

\* `vf-${this.metadataName}-${this.sourceHash}-...`, line 261
EnhancedCacheKey(page) == <<"vf-", page>>

DocKeys == {EnhancedCacheKey(p) : p \in Pages}

\* generateParserOnlyMarkdown, lines 285-300: the header section is never empty
generateParserOnlyMarkdown(page) == <<"## ", page, "Automated Parser Summary">>

\* public placeholder, line 113
placeholder == <<"<!-- VF description -->">>

\* lines 627-638
buildInitialMarkdownLines(page) ==
    << <<"# ", page>>, <<>>, placeholder, <<>>, <<"## Visualforce Source">>, <<"fence", "xml">>,
       <<"source of ", page>>, <<"fence">>, <<>> >>

\* variant: the skeleton is returned as it is
SkeletonOnly(page, descriptionContent) == buildInitialMarkdownLines(page)

\* lines 667-674: lines.indexOf(placeholder) and the replacement of that line
injectDescriptionIntoSkeleton(page, descriptionContent) ==
    LET lines == buildInitialMarkdownLines(page)
        found == {i \in 1..Len(lines) : lines[i] = placeholder}
    IN  IF found = {} THEN lines
        ELSE [lines EXCEPT ![CHOOSE i \in found : \A j \in found : i <= j] = descriptionContent]

\* getCache(key, defaultValue) / setCache(key, value)
getCache(ch, key, dflt) == IF ch.entries[key] = Undef THEN dflt ELSE ch.entries[key]
setCache(ch, key, v) == [entries |-> [ch.entries EXCEPT ![key] = v], saved |-> [ch.saved EXCEPT ![key] = v]]

\* what the AI generation of the superclass does: it returns a description
\* (possibly the empty string) or throws
AiGenerations == {[threw |-> FALSE, text |-> AiDescription], [threw |-> FALSE, text |-> <<>>],
                  [threw |-> TRUE, text |-> Undef]}

\* one call of build up to the return of completeDocWithAiDescription
NewBuild(page) ==
    [page |-> page, pc |-> "new", parserFallbackMarkdown |-> <<>>, cachedAIResult |-> Undef,
     returned |-> FALSE, ret |-> Undef,
     aiInvoked |-> 0, aiFailed |-> FALSE, description |-> Undef, afterFailure |-> FALSE]

\* variant: the fallback is returned but not cached
FallbackNotCached(ch, key, fallbackResult) == ch

\* lines 660-661: the fallback is cached
CacheFallback(ch, key, fallbackResult) == setCache(ch, key, fallbackResult)

DocReturn(c, descriptionContent) ==
    [c EXCEPT !.pc = "done", !.returned = TRUE, !.description = descriptionContent,
              !.ret = injectDescriptionIntoSkeleton(c.page, descriptionContent)]

InitDoc ==
    /\ \E n \in 1..MaxBuilds : \E ps \in [1..n -> Pages] : calls = [i \in 1..n |-> NewBuild(ps[i])]
    /\ \E es \in [DocKeys -> {Undef, AiDescription}] : cache = [entries |-> es, saved |-> es]
    /\ aiDisabled = FALSE
    /\ pc = "doc"
    /\ vfContent = <<>>
    /\ parsedData = <<>>
    /\ result = createEmptyResult
    /\ frames = <<>>
    /\ pageBlockStack = <<>>
    /\ compElems = <<>>
    /\ threw = FALSE
    /\ pieces = <<>>
    /\ steps = 0
    /\ contentLength = 0
    /\ heap = <<>>

\* build, lines 159-180, and lines 643-651: the fallback markdown is
\* prepared, the cache is read; a truthy entry is returned in the skeleton,
\* otherwise the AI generation is started
DocBegin(i) ==
    /\ calls[i].pc = "new"
    /\ \A j \in 1..(i - 1) : calls[j].returned
    /\ LET c == calls[i]
           cachedAIResult == getCache(cache, EnhancedCacheKey(c.page), Undef)
           c1 == [c EXCEPT !.parserFallbackMarkdown = generateParserOnlyMarkdown(c.page),
                           !.cachedAIResult = cachedAIResult,
                           !.afterFailure = \E j \in 1..(i - 1) :
                                               calls[j].page = c.page /\ calls[j].aiFailed]
       IN  calls' = [calls EXCEPT ![i] =
                       IF Truthy(cachedAIResult) THEN DocReturn(c1, cachedAIResult)
                       ELSE [c1 EXCEPT !.pc = "ai", !.aiInvoked = @ + 1]]
    /\ UNCHANGED <<vfContent, pc, parsedData, result, frames, pageBlockStack, compElems, threw,
                   pieces, steps, contentLength, heap, aiDisabled, cache>>

\* lines 654-662: the AI generation returned, or threw
DocAiSettle(i) ==
    /\ calls[i].pc = "ai"
    /\ \E g \in AiGenerations :
          LET c == calls[i]
              key == EnhancedCacheKey(c.page)
          IN  IF g.threw
              THEN /\ cache' = CacheFallback(cache, key, c.parserFallbackMarkdown)
                   /\ calls' = [calls EXCEPT ![i] =
                                   DocReturn([c EXCEPT !.aiFailed = TRUE], c.parserFallbackMarkdown)]
              ELSE /\ cache' = setCache(cache, key, g.text)
                   /\ calls' = [calls EXCEPT ![i] = DocReturn(c, g.text)]
    /\ UNCHANGED <<vfContent, pc, parsedData, result, frames, pageBlockStack, compElems, threw,
                   pieces, steps, contentLength, heap, aiDisabled>>

NextDoc ==
    \/ \E i \in 1..Len(calls) : DocBegin(i)
    \/ \E i \in 1..Len(calls) : DocAiSettle(i)

SpecDoc == InitDoc /\ [][NextDoc]_vars

----------------------------------------------------------------------------
(* parse when the walk of the tree fails. traverse is recursive (lines 222,  *)
(* 260, 263) and the call stack of the engine is finite: a recursive call    *)
(* made at a depth the engine cannot hold throws a RangeError, which leaves  *)
(* traverse and traverseNode and is caught at line 119. The depth at which   *)
(* that happens depends on the engine and its stack size, so a recursive     *)
(* call may fail at any depth from MinOverflowDepth on.                      *)

MinOverflowDepth == 2

\* the iteration at the current key ends in a recursive call of traverse
RecursesOf(v) ==
    /\ AtObjKeyOf(v)
    /\ LET T == v.parsedData
           f == Last(v.frames)
           key == ObjKeys(T, f.e)[f.i]
       IN  /\ key.k = "tag"
           /\ \/ Len(GroupOf(T, f.e, key)) >= 2
              \/ key.ns = "apex" /\ key.name = "pageBlock"
              \/ ~IsStrNode(T, GroupOf(T, f.e, key)[1])

\* the statements of lines 181-221 (or 181-259) have run, the recursive call
\* throws: every pending call of traverse is left without running another
\* statement (line 225 is not in a finally block), control is at line 119
TraverseOverflowOf(v) ==
    [TraverseKeyOf(v) EXCEPT !.frames = <<>>, !.pc = OnThrow, !.threw = TRUE]

TraverseOverflow ==
    /\ pc = "traverse"
    /\ Len(frames) >= MinOverflowDepth
    /\ RecursesOf(View)
    /\ \E v \in {TraverseOverflowOf(View)} : Becomes(v)
    /\ steps' = steps + 1
    /\ UNCHANGED <<pieces, contentLength, calls, heap, aiDisabled, cache>>

NextFailure ==
    \/ TraverseOverflow
    \/ Next

SpecFailure == Init /\ [][NextFailure]_vars

----------------------------------------------------------------------------
(* parse on documents with expressions of every class, text content and     *)
(* a rendered attribute.                                                    *)

\* largest number of elements below the root of such a document
MaxMarkupElems == 2

ExprFX == <<"{", "!", "f", "(", "x", ")", "}">>
ExprR == <<"{", "!", "r", "}">>
ExprT == <<"{", "!", "t", "}">>

\* <apex:outputText value="{!f(x)}" rendered="{!r}">{!t}</apex:outputText>,
\* <apex:inputField value="{!a.b}"/>, <apex:outputLabel>{!s}</apex:outputLabel>,
\* <apex:pageBlock title="T">, <apex:detail standardController="B"/>
MarkupKinds ==
    { Kind("apex", "outputText", <<Attr("value", ExprFX), Attr("rendered", ExprR)>>, ExprT, FALSE),
      Kind("apex", "inputField", <<Attr("value", ExprAB)>>, <<>>, FALSE),
      Kind("apex", "outputLabel", <<>>, ExprS, FALSE),
      Kind("apex", "pageBlock", <<Attr("title", <<"T">>)>>, <<>>, TRUE),
      Kind("apex", "detail", <<Attr("standardController", <<"B">>)>>, <<>>, FALSE) }

IsMarkupInput(text) ==
    \E n \in 0..MaxMarkupElems : \E k \in [1..n -> MarkupKinds] : \E p \in Parents(n, k) :
        \E f \in Forms : \E c \in Controllers : text = Render(Doc(n, k, p, f, c))

InitMarkup ==
    /\ IsMarkupInput(vfContent)
    /\ pc = "start"
    /\ parsedData = <<>>
    /\ result = createEmptyResult
    /\ frames = <<>>
    /\ pageBlockStack = <<>>
    /\ compElems = <<>>
    /\ threw = FALSE
    /\ pieces = <<>>
    /\ steps = 0
    /\ contentLength = 0
    /\ calls = <<>>
    /\ heap = <<>>
    /\ aiDisabled = FALSE
    /\ cache = <<>>

SpecMarkup == InitMarkup /\ [][Next]_vars

----------------------------------------------------------------------------
(* DocBuilderVf.parseVfContentWithOptimization: the size test in front of    *)
(* parse, and DocBuilderVf.simplifiedParse                                   *)
(* (src/src/common/vfScripts/AIProvider/AiSafeWrapper.ts).                   *)
(* The content is the markup text followed by blank padding; contentLength  *)
(* is its length in characters.                                             *)

\* content.length > 100000
SizeThreshold == 100000

\* largest number of elements below the root of a document handed to the builder
MaxSizedElems == 2

\* the lengths of the model: just below, at and just above the threshold
Lengths == {SizeThreshold - 1, SizeThreshold, SizeThreshold + 1}

\* the object literal of simplifiedParse; a property it does not have reads as undefined
simplifiedResult ==
    [ controllerName |-> Undef, customControllerName |-> Undef,
      extensionNames |-> <<>>, components |-> <<>>, fieldReferences |-> <<>>,
      apexExpressions |-> <<>>, hasForms |-> FALSE,
      hasRemoteObjects |-> FALSE, hasStaticResources |-> FALSE,
      templateFragments |-> <<>>, formCount |-> Undef, apiVersion |-> Undef, pageLabel |-> Undef,
      inputBindings |-> Undef, buttonActions |-> Undef, pageBlocks |-> Undef,
      actionSupports |-> Undef, outputPanels |-> Undef,
      sObjectReferences |-> Undef, detailedFieldReferences |-> Undef,
      customComponents |-> Undef, scripts |-> Undef ]

\* result.customComponents.push(nm) of _extractBasicVfInfo on a result without
\* customComponents: a TypeError at the first tag of namespace c
BasicInfoThrows(toks, res) ==
    /\ res.customComponents = Undef
    /\ \E i \in Range(TagStarts(toks)) : toks[i].ns = "c"

IsSizedInput(text) ==
    \E n \in 0..MaxSizedElems : \E k \in [1..n -> Kinds] : \E p \in Parents(n, k) :
        \E f \in Forms : \E c \in Controllers : text = Render(Doc(n, k, p, f, c))

InitDocBuilder ==
    /\ IsSizedInput(vfContent)
    /\ contentLength \in Lengths
    /\ calls = <<>>
    /\ heap = <<>>
    /\ aiDisabled = FALSE
    /\ cache = <<>>
    /\ pc = "route"
    /\ parsedData = <<>>
    /\ result = createEmptyResult
    /\ frames = <<>>
    /\ pageBlockStack = <<>>
    /\ compElems = <<>>
    /\ threw = FALSE
    /\ pieces = <<>>
    /\ steps = 0

\* parseVfContentWithOptimization: simplifiedParse above the threshold, else VfParser.parse
Route ==
    /\ pc = "route"
    /\ pc' = IF contentLength > SizeThreshold THEN "simplified" ELSE "start"
    /\ steps' = steps + 1
    /\ UNCHANGED <<vfContent, parsedData, result, frames, pageBlockStack, compElems, threw, pieces,
                   contentLength, calls, heap, aiDisabled, cache>>

\* DocBuilderVf.simplifiedParse: _extractBasicVfInfo and extractApexExpressions
\* on the object literal; an exception leaves the method
SimplifiedParse ==
    /\ pc = "simplified"
    /\ IF BasicInfoThrows(vfContent, simplifiedResult)
       THEN /\ pc' = "thrown"
            /\ result' = simplifiedResult
       ELSE /\ pc' = "done"
            /\ result' = ExprOfText(vfContent, _extractBasicVfInfo(vfContent, simplifiedResult))
    /\ steps' = steps + 1
    /\ UNCHANGED <<vfContent, parsedData, frames, pageBlockStack, compElems, threw, pieces,
                   contentLength, calls, heap, aiDisabled, cache>>

NextDocBuilder ==
    \/ Route
    \/ SimplifiedParse
    \/ Next

SpecDocBuilder == InitDocBuilder /\ [][NextDocBuilder]_vars


----------------------------------------------------------------------------
(* Several invocations of parse in flight together. parse is declared async  *)
(* and holds no await, so the runtime runs each call to its return before   *)
(* the next begins; the model lets the calls interleave at every step, which *)
(* includes that schedule. The objects that outlive a statement are the     *)
(* result objects the calls allocate (heap); the static xmlParser holds only *)
(* its options, which no call writes; everything else is local to a call.   *)

\* largest number of invocations in flight together
MaxCalls == 3

\* <apex:page><apex:pageBlock title="T"><apex:inputField value="{!a.b}"/></apex:pageBlock></apex:page>
TreeText ==
    Render(Doc(2, <<Kind("apex", "pageBlock", <<Attr("title", <<"T">>)>>, <<>>, TRUE),
                    Kind("apex", "inputField", <<Attr("value", ExprAB)>>, <<>>, FALSE)>>,
               <<0, 1>>, "page", Undef))

\* <apex:component standardController="A"><c:w/></apex:component>
NoRootText ==
    Render(Doc(1, <<Kind("c", "w", <<>>, <<>>, FALSE)>>, <<0>>, "noroot", <<"A">>))

\* <apex:page standardController="A"><apex:commandButton action="{!s}"/></apex:page
UntermText ==
    Render(Doc(1, <<Kind("apex", "commandButton", <<Attr("action", ExprS)>>, <<>>, FALSE)>>,
               <<0>>, "unterminated", <<"A">>))

CallTexts == {TreeText, NoRootText, UntermText}

\* an invocation parse(text) that has not yet run its first statement
NewCall(text) ==
    [vfContent |-> text, pc |-> "new", parsedData |-> <<>>, res |-> 0, frames |-> <<>>,
     pageBlockStack |-> <<>>, compElems |-> <<>>, threw |-> FALSE,
     returned |-> FALSE, ret |-> createEmptyResult]

\* the state of a call after "const result = VfParser.createEmptyResult()", line 84
EntryView(text) ==
    [vfContent |-> text, pc |-> "start", parsedData |-> <<>>, result |-> createEmptyResult,
     frames |-> <<>>, pageBlockStack |-> <<>>, compElems |-> <<>>, threw |-> FALSE]

\* the next step of a call in state v
StepOf(v) ==
    CASE v.pc = "start" -> ParseXmlOf(v)
      [] v.pc \in {"fallback", "catch"} -> FallbackOf(v)
      [] v.pc = "assign" -> AssignPageAttributesOf(v)
      [] v.pc = "prescan" -> PreScanOf(v)
      [] AtObjKeyOf(v) -> TraverseKeyOf(v)
      [] AtArrItemOf(v) -> TraverseItemOf(v)
      [] AtReturnOf(v) -> TraverseReturnOf(v)
      [] v.pc = "traverse" /\ v.frames = <<>> -> FinishOf(v)
      [] OTHER -> v

\* a call run from state v to its return, no other call in flight
RECURSIVE RunOf(_)
RunOf(v) == LET n == StepOf(v) IN IF n = v THEN v ELSE RunOf(n)

\* what parse(text) returns when it runs alone
AloneResults == [t \in CallTexts |-> RunOf(EntryView(t)).result]

\* variant: every call gets the one result object
SharedResultAddress(h) == 1

\* createEmptyResult returns a new object: its address is a new one
NewResultAddress(h) == Len(h) + 1

\* variant: the new object starts from what the first object holds by now
InitialResultFromFirst(h) == IF h = <<>> THEN createEmptyResult ELSE h[1]

\* the new object is the literal of createEmptyResult, with arrays of its own
InitialResult(h) == createEmptyResult

\* the locals of call c with its result object
CallView(c, h) ==
    [vfContent |-> c.vfContent, pc |-> c.pc, parsedData |-> c.parsedData, result |-> h[c.res],
     frames |-> c.frames, pageBlockStack |-> c.pageBlockStack, compElems |-> c.compElems,
     threw |-> c.threw]

InitCalls ==
    /\ \E n \in 1..MaxCalls : calls \in [1..n -> {NewCall(t) : t \in CallTexts}]
    /\ heap = <<>>
    /\ aiDisabled = FALSE
    /\ cache = <<>>
    /\ vfContent = <<>>
    /\ pc = "calls"
    /\ parsedData = <<>>
    /\ result = createEmptyResult
    /\ frames = <<>>
    /\ pageBlockStack = <<>>
    /\ compElems = <<>>
    /\ threw = FALSE
    /\ pieces = <<>>
    /\ steps = 0
    /\ contentLength = 0

\* line 84 of invocation i; the invocations are numbered in the order they begin
CallBegin(i) ==
    /\ calls[i].pc = "new"
    /\ \A j \in 1..(i - 1) : calls[j].pc # "new"
    /\ LET a == NewResultAddress(heap)
       IN  /\ heap' = IF a > Len(heap) THEN Append(heap, InitialResult(heap)) ELSE heap
           /\ calls' = [calls EXCEPT ![i].pc = "start", ![i].res = a]
    /\ UNCHANGED <<vfContent, pc, parsedData, result, frames, pageBlockStack, compElems, threw,
                   pieces, steps, contentLength, aiDisabled, cache>>

\* one step of invocation i, on its locals and on its result object
CallStep(i) ==
    /\ calls[i].pc \notin {"new", "done"}
    /\ \E n \in {StepOf(CallView(calls[i], heap))} :
           /\ heap' = [heap EXCEPT ![calls[i].res] = n.result]
           /\ calls' = [calls EXCEPT ![i] =
                  [@ EXCEPT !.pc = n.pc, !.parsedData = n.parsedData, !.frames = n.frames,
                            !.pageBlockStack = n.pageBlockStack, !.compElems = n.compElems,
                            !.threw = n.threw,
                            !.returned = (n.pc = "done"),
                            !.ret = IF n.pc = "done" THEN n.result ELSE @]]
    /\ UNCHANGED <<vfContent, pc, parsedData, result, frames, pageBlockStack, compElems, threw,
                   pieces, steps, contentLength, aiDisabled, cache>>

NextCalls ==
    \/ \E i \in 1..Len(calls) : CallBegin(i)
    \/ \E i \in 1..Len(calls) : CallStep(i)

SpecCalls == InitCalls /\ [][NextCalls]_vars

----------------------------------------------------------------------------
(* The Expression Classifier on its own: extractApexExpressions applied to   *)
(* one text run composed of expressions and of filler characters.           *)

\* largest number of pieces of a classifier input text
MaxPieces == 3

\* a piece: an expression {!body} (with the class its body is written in) or filler
ExprPiece(body, class) == [expr |-> TRUE, s |-> body, class |-> class]
Filler(c) == [expr |-> FALSE, s |-> <<c>>, class |-> "filler"]

Pieces ==
    { ExprPiece(<<"f", "(", "x", ")">>, "function"),
      ExprPiece(<<"f", " ", "(", "x", ")">>, "function"),
      ExprPiece(<<"s">>, "bare"),
      ExprPiece(<<" ", "s", "_", "1", " ">>, "bare"),
      ExprPiece(<<"a", ".", "b">>, "path"),
      ExprPiece(<<"a", "=", "=", "b">>, "boolean"),
      ExprPiece(<<"a", " ", ">", " ", "b">>, "boolean"),
      Filler(" "), Filler("x"), Filler("{"), Filler("}") }

PieceText(p) == IF p.expr THEN <<"{", "!">> \o p.s \o <<"}">> ELSE p.s

InitClassifier ==
    /\ \E n \in 0..MaxPieces : pieces \in [1..n -> Pieces]
    /\ vfContent = <<TextTok(Flatten([i \in 1..Len(pieces) |-> PieceText(pieces[i])]))>>
    /\ pc = "classify"
    /\ parsedData = <<>>
    /\ result = createEmptyResult
    /\ frames = <<>>
    /\ pageBlockStack = <<>>
    /\ compElems = <<>>
    /\ threw = FALSE
    /\ steps = 0
    /\ contentLength = 0
    /\ calls = <<>>
    /\ heap = <<>>
    /\ aiDisabled = FALSE
    /\ cache = <<>>

\* extractApexExpressions(text, result) on a fresh result
Classify ==
    /\ pc = "classify"
    /\ result' = extractApexExpressions(vfContent[1].s, result, UnknownContext)
    /\ pc' = "classified"
    /\ UNCHANGED <<vfContent, parsedData, frames, pageBlockStack, compElems, threw, pieces>>
    /\ steps' = steps + 1
    /\ UNCHANGED <<contentLength, calls, heap, aiDisabled, cache>>

NextClassifier == Classify

SpecClassifier == InitClassifier /\ [][NextClassifier]_vars

----------------------------------------------------------------------------
(* The Script & Resource Extractor on its own: extractScriptTags applied,   *)
(* once or more, to a text composed of script elements and include          *)
(* directives.                                                              *)

\* largest number of script pieces of a text, and of runs of the extractor on one result
MaxScriptPieces == 3
MaxRuns == 2

FooJs == <<"f", "o", "o", ".", "j", "s">>
Alert1 == <<"a", "l", "e", "r", "t", "(", "1", ")">>
Bar == <<"b", "a", "r">>

\* a run of n characters
Chars(n) == [i \in 1..n |-> "x"]

\* a piece of text with the entries it is to give
ScriptPiece(toks, expect) == [toks |-> toks, expect |-> expect]

\* <script src="foo.js"></script>
ExternalPiece ==
    ScriptPiece(<<OpenTok("", "script", <<Attr("src", FooJs)>>), CloseTok("", "script", TRUE)>>,
                <<[type |-> "External URL", value |-> FooJs]>>)

\* <script>alert(1)</script>
InlinePiece ==
    ScriptPiece(<<OpenTok("", "script", <<>>), TextTok(Alert1), CloseTok("", "script", TRUE)>>,
                <<[type |-> "Inline Script", value |-> Alert1]>>)

\* <apex:includeScript value="bar"/>
IncludePiece ==
    ScriptPiece(<<SelfTok("apex", "includeScript", <<Attr("value", Bar)>>)>>,
                <<[type |-> "Static Resource", value |-> Bar]>>)

ScriptPieces ==
    { ExternalPiece, InlinePiece, IncludePiece,
      \* <script> </script>: a blank body
      ScriptPiece(<<OpenTok("", "script", <<>>), TextTok(<<" ">>), CloseTok("", "script", TRUE)>>, <<>>),
      \* a body of exactly 200 characters, padded with blanks
      ScriptPiece(<<OpenTok("", "script", <<>>), TextTok(<<" ">> \o Chars(200) \o <<" ">>),
                    CloseTok("", "script", TRUE)>>,
                  <<[type |-> "Inline Script", value |-> Chars(200)]>>),
      \* a body of 201 characters
      ScriptPiece(<<OpenTok("", "script", <<>>), TextTok(Chars(201)), CloseTok("", "script", TRUE)>>,
                  <<[type |-> "Inline Script", value |-> Chars(200) \o <<".", ".", ".">>]>>),
      \* <apex:includeScript/>: no value
      ScriptPiece(<<SelfTok("apex", "includeScript", <<>>)>>, <<>>) }

InitScripts ==
    /\ \E n \in 0..MaxScriptPieces : pieces \in [1..n -> ScriptPieces]
    /\ vfContent = Flatten([i \in 1..Len(pieces) |-> pieces[i].toks])
    /\ pc = "scripts"
    /\ parsedData = <<>>
    /\ result = createEmptyResult
    /\ frames = <<>>
    /\ pageBlockStack = <<>>
    /\ compElems = <<>>
    /\ threw = FALSE
    /\ steps = 0
    /\ contentLength = 0
    /\ calls = <<>>
    /\ heap = <<>>
    /\ aiDisabled = FALSE
    /\ cache = <<>>

\* extractScriptTags(vfContent, result), on the result of the previous run if any
ExtractScripts ==
    /\ pc = "scripts"
    /\ steps < MaxRuns
    /\ result' = extractScriptTags(vfContent, result)
    /\ steps' = steps + 1
    /\ UNCHANGED <<contentLength, calls, heap, aiDisabled, cache>>
    /\ UNCHANGED <<vfContent, pc, parsedData, frames, pageBlockStack, compElems, threw, pieces>>

NextScripts == ExtractScripts

SpecScripts == InitScripts /\ [][NextScripts]_vars

----------------------------------------------------------------------------
(* Properties *)

Done == pc = "done"

\* parse returned after the traversal of the tree
TreePath == Done /\ ~threw /\ PageTagTruthy(parsedData)

\* parse returned after the regex fallback (no page root, or an exception)
FallbackPath == Done /\ ~TreePath

CollectionFields ==
    {"extensionNames", "components", "fieldReferences", "apexExpressions", "templateFragments",
     "inputBindings", "buttonActions", "pageBlocks", "actionSupports", "outputPanels",
     "sObjectReferences", "detailedFieldReferences", "customComponents", "scripts"}

IsArray(v) == DOMAIN v = 1..Len(v)

\* some step of parse can be taken
CanStep ==
    \/ pc \in {"start", "fallback", "catch", "assign", "prescan"}
    \/ AtObjKey
    \/ AtArrItem
    \/ AtReturn
    \/ (pc = "traverse" /\ frames = <<>>)

RECURSIVE SumSeq(_)
SumSeq(ns) == IF ns = <<>> THEN 0 ELSE Head(ns) + SumSeq(Tail(ns))

\* the number of steps the call traverse(node) takes, for an object and for an array
RECURSIVE WorkObj(_, _, _)
RECURSIVE WorkArr(_, _, _)
WorkOfKey(T, e, key) ==
    IF key.k # "tag" THEN 0
    ELSE LET group == GroupOf(T, e, key)
         IN  IF Len(group) >= 2 THEN WorkArr(T, group, 1)
             ELSE IF (key.ns = "apex" /\ key.name = "pageBlock") \/ ~IsStrNode(T, group[1])
             THEN WorkObj(T, group[1], 1)
             ELSE 0
WorkObj(T, e, from) ==
    LET keys == ObjKeys(T, e)
    IN  1 + SumSeq([i \in 1..(Len(keys) - from + 1) |-> 1 + WorkOfKey(T, e, keys[from + i - 1])])
WorkArr(T, items, from) ==
    1 + SumSeq([i \in 1..(Len(items) - from + 1) |->
                  1 + (IF IsStrNode(T, items[from + i - 1]) THEN 0 ELSE WorkObj(T, items[from + i - 1], 1))])

\* the steps left in one pending call of traverse
FrameWork(T, f) == IF f.kind = "obj" THEN WorkObj(T, f.e, f.i) ELSE WorkArr(T, f.items, f.i)

\* the number of steps parse still has to take
StepsLeft ==
    CASE pc = "start" ->
            LET p == XmlParse(vfContent)
            IN  IF ~p.threw /\ PageTagTruthy(p.elems) THEN 4 + WorkObj(p.elems, 1, 1) ELSE 2
      [] pc = "assign" -> 3 + WorkObj(parsedData, 1, 1)
      [] pc = "prescan" -> 2 + WorkObj(parsedData, 1, 1)
      [] pc = "traverse" -> 1 + SumSeq([i \in 1..Len(frames) |-> FrameWork(parsedData, frames[i])])
      [] pc \in {"fallback", "catch"} -> 1
      [] OTHER -> 0

\* the number of steps of the whole call, from the text alone
TotalSteps(toks) ==
    LET p == XmlParse(toks)
    IN  IF ~p.threw /\ PageTagTruthy(p.elems) THEN 4 + WorkObj(p.elems, 1, 1) ELSE 2

\* C1: whichever way the tree builder ends (a tree with an apex:page root, a
\* tree without it, an exception), parse runs to its return (a step can be
\* taken until it has returned, and it returns after the number of steps the
\* text determines), no exception leaves it, and the result it returns has
\* every collection field.
C1_ParseAlwaysReturns ==
    /\ pc \in {"start", "fallback", "catch", "assign", "prescan", "traverse", "done"}
    /\ ~Done => CanStep
    /\ steps + StepsLeft = TotalSteps(vfContent)
    /\ Done => /\ StepsLeft = 0
               /\ CollectionFields \subseteq DOMAIN result
               /\ \A fld \in CollectionFields : IsArray(result[fld])

\* C1 witness: parse returned a populated result after the tree builder threw
C1_Witness == Done /\ threw /\ Len(result.components) >= 2

SetFields ==
    {"apexExpressions", "inputBindings", "buttonActions", "customComponents",
     "templateFragments", "sObjectReferences", "detailedFieldReferences"}

\* C2: after parse returns, on every path, no set-valued field holds the
\* same value twice.
C2_DedupInvariant == Done => \A fld \in SetFields : NoDuplicates(result[fld])

IsBlockElem(T, e) == T[e].ns = "apex" /\ T[e].name = "pageBlock"

\* the nearest pageBlock element properly enclosing element e, or 0
RECURSIVE NearestBlock(_, _)
NearestBlock(T, e) ==
    IF T[e].parent = 0 THEN 0
    ELSE IF IsBlockElem(T, T[e].parent) THEN T[e].parent
    ELSE NearestBlock(T, T[e].parent)

\* index in result.components of the component of the k-th entry of result.pageBlocks
BlockComponent(res, k) ==
    SelectSeq(Idx(res.components), LAMBDA i :
        res.components[i].namespace = "apex" /\ res.components[i].name = "pageBlock")[k]

\* the elements the k-th page block stands for
BlockElems(k) == Range(compElems[BlockComponent(result, k)])

\* page block A holding page block B holding one input component
NestedBlocksText ==
    <<OpenTok("apex", "page", <<>>),
      OpenTok("apex", "pageBlock", <<Attr("title", <<"T">>)>>),
      OpenTok("apex", "pageBlock", <<Attr("title", <<"T">>)>>),
      SelfTok("apex", "inputField", <<Attr("value", ExprAB)>>),
      CloseTok("apex", "pageBlock", TRUE),
      CloseTok("apex", "pageBlock", TRUE),
      CloseTok("apex", "page", TRUE)>>

\* C3: on the tree path every entry of a block's components list is a
\* component whose nearest enclosing block is that block (so a component
\* declared inside an inner block is not in the outer block's list), every
\* namespaced non-block element that has an enclosing block is in the list of
\* its nearest one, and for A holding B holding one input, pageBlocks has two
\* entries, A's list is empty and B's list is exactly that input.
C3_NestingInvariant ==
    TreePath =>
      /\ \A k \in 1..Len(result.pageBlocks) :
            \A c \in Range(result.pageBlocks[k].components) :
               \A x \in Range(compElems[c]) : NearestBlock(parsedData, x) \in BlockElems(k)
      /\ \A x \in 2..Len(parsedData) :
            (parsedData[x].ns # "" /\ ~IsBlockElem(parsedData, x) /\ NearestBlock(parsedData, x) # 0)
            => \E k \in 1..Len(result.pageBlocks) :
                  /\ NearestBlock(parsedData, x) \in BlockElems(k)
                  /\ \E c \in Range(result.pageBlocks[k].components) : x \in Range(compElems[c])
      /\ vfContent = NestedBlocksText =>
            /\ Len(result.pageBlocks) = 2
            /\ result.pageBlocks[1].components = <<>>
            /\ Len(result.pageBlocks[2].components) = 1
            /\ result.components[result.pageBlocks[2].components[1]].name = "inputField"

\* C3 witness: the nested-blocks page was parsed on the tree path
C3_Witness ==
    /\ TreePath
    /\ vfContent = NestedBlocksText
    /\ Len(result.pageBlocks[2].components) = 1

\* C4: on the tree path formCount is the number of form-opening tags of the raw text.
C4_FormCountIsRawCount == TreePath => result.formCount = RawFormCount(vfContent)

\* C5: on the fallback path formCount, hasRemoteObjects and hasStaticResources
\* are those of the raw text.
C5_FallbackCountsFromRawText ==
    FallbackPath =>
      /\ result.formCount = RawFormCount(vfContent)
      /\ result.hasRemoteObjects = RawHasRemoteObjects(vfContent)
      /\ result.hasStaticResources = RawHasStaticResources(vfContent)

\* C6: on the tree path, a standardController="X" attribute of the root page
\* element gives controllerName = X.
C6_ControllerFromPageAttribute ==
    (TreePath /\ AttrOf(parsedData[1].attrs, "standardController") # Undef)
    => result.controllerName = AttrOf(parsedData[1].attrs, "standardController")

\* C7: in every returned result whose controllerName is set and has no dot,
\* sObjectReferences contains the controller name.
C7_ControllerInSObjectReferences ==
    (Done /\ Truthy(result.controllerName) /\ ~Includes(result.controllerName, "."))
    => result.controllerName \in Range(result.sObjectReferences)

\* C8: on the tree path, each input- or select-like element with an expression
\* in its value attribute has the first expression in inputBindings, and each
\* command button/link with an expression in its action attribute has the
\* first expression in buttonActions.
C8_BindingsOfEveryElement ==
    TreePath =>
      \A x \in 2..Len(parsedData) :
        LET el == parsedData[x]
        IN  /\ (IsInputLike(el.name) /\ ExprMatches(AttrOf(el.attrs, "value"), 1) # <<>>)
               => ExprMatches(AttrOf(el.attrs, "value"), 1)[1] \in Range(result.inputBindings)
            /\ (IsCommandLike(el.name) /\ ExprMatches(AttrOf(el.attrs, "action"), 1) # <<>>)
               => ExprMatches(AttrOf(el.attrs, "action"), 1)[1] \in Range(result.buttonActions)

ComponentNames(res) == {<<res.components[i].namespace, res.components[i].name>> : i \in 1..Len(res.components)}

\* C9: for a text the tree path handles, the set of qualified component names
\* of the tree traversal equals that of the regex fallback extractor on the same text.
C9_FallbackEquivalence ==
    TreePath => ComponentNames(result) = ComponentNames(_extractBasicVfInfo(vfContent, createEmptyResult))

\* the number of pageBlock elements among element e and its ancestors
RECURSIVE BlockDepth(_, _)
BlockDepth(T, e) ==
    IF e = 0 THEN 0
    ELSE (IF IsBlockElem(T, e) THEN 1 ELSE 0) + BlockDepth(T, T[e].parent)

\* the element whose content the innermost call of traverse walks
CurrentNode == IF Last(frames).kind = "obj" THEN Last(frames).e ELSE Last(frames).items[1]

\* the walk of the tree failed after it had begun
WalkFailed == threw /\ parsedData # <<>>

\* C21: the block stack is empty before the walk; during the walk its depth
\* is the number of block elements enclosing the content being walked and its
\* top is the nearest of them; it is empty when the walk has ended, also
\* when the walk ended with an exception.
C21_StackDiscipline ==
    /\ pc \in {"start", "assign", "prescan", "fallback"} => pageBlockStack = <<>>
    /\ (pc = "traverse" /\ frames # <<>>) =>
          /\ Len(pageBlockStack) = BlockDepth(parsedData, CurrentNode)
          /\ pageBlockStack # <<>> =>
                (IF IsBlockElem(parsedData, CurrentNode) THEN CurrentNode
                 ELSE NearestBlock(parsedData, CurrentNode)) \in BlockElems(Last(pageBlockStack))
    /\ (pc = "traverse" /\ frames = <<>>) => pageBlockStack = <<>>
    /\ pc \in {"catch", "done"} => pageBlockStack = <<>>

\* the entries of result.pageBlocks whose block is the nearest block enclosing element x
BlocksAround(x) ==
    {k \in 1..Len(result.pageBlocks) : NearestBlock(parsedData, x) \in BlockElems(k)}

IsBlockComponent(c) ==
    result.components[c].namespace = "apex" /\ result.components[c].name = "pageBlock"

\* C22: on the tree path every component discovered inside a block (the
\* stack is non-empty then) is in the components list of the nearest
\* enclosing block; every block's list holds components of the global list
\* in the order of the global list; no component is in two lists or twice
\* in one.
C22_AttachedToTopBlock ==
    TreePath =>
      /\ \A c \in 1..Len(result.components) : \A x \in Range(compElems[c]) :
            NearestBlock(parsedData, x) # 0 =>
               \E k \in BlocksAround(x) : c \in Range(result.pageBlocks[k].components)
      /\ \A k \in 1..Len(result.pageBlocks) :
            LET l == result.pageBlocks[k].components
            IN  /\ Range(l) \subseteq 1..Len(result.components)
                /\ \A i, j \in 1..Len(l) : i < j => l[i] < l[j]
      /\ \A k1, k2 \in 1..Len(result.pageBlocks) :
            k1 # k2 => Range(result.pageBlocks[k1].components)
                         \cap Range(result.pageBlocks[k2].components) = {}

\* the pageBlock elements that have an enclosing pageBlock
NestedBlockElems ==
    {x \in 2..Len(parsedData) : IsBlockElem(parsedData, x) /\ NearestBlock(parsedData, x) # 0}

PanelComponent(res, k) ==
    SelectSeq(Idx(res.components), LAMBDA i :
        res.components[i].namespace = "apex" /\ res.components[i].name = "outputPanel")[k]

\* the preview the panel element x is to have: its text cut to 100
\* characters, or the summary of its content cut to 120, the ellipsis
\* appended exactly when something was cut off
ExpectedPreview(T, x) ==
    IF T[x].text # <<>>
    THEN IF Len(T[x].text) > PreviewLimit THEN Cut(T[x].text, PreviewLimit) \o Ellipsis
         ELSE T[x].text
    ELSE LET summary == JsonOfElem(T, x)
         IN  IF Len(summary) > SummaryLimit THEN Cut(summary, SummaryLimit) \o Ellipsis
             ELSE summary

\* C23: on the tree path the contentPreview of an output panel (one without a
\* same-tag sibling) is its text when it has a text child, also when the text
\* is its only content, cut to 100 characters with the ellipsis exactly when
\* the text was longer; otherwise the summary of its content, cut to 120
\* characters with the ellipsis exactly when the summary was longer.
C23_ContentPreview ==
    TreePath =>
      \A k \in 1..Len(result.outputPanels) :
         LET group == compElems[PanelComponent(result, k)]
         IN  Len(group) = 1 =>
                result.outputPanels[k].contentPreview = ExpectedPreview(parsedData, group[1])

\* C24: the resolver returns for every list of references; afterwards a
\* reference whose expression has a "." has sObjectName = the first segment
\* and fieldName = the rest, with the segment in sObjectReferences and the
\* expression in detailedFieldReferences; a reference without "." under a
\* known controller name without "." has sObjectName = the controller name
\* and fieldName = the expression, with controllerName.expression in
\* detailedFieldReferences; any other reference has both unset. The
\* references are those the classifier created, in their order, and the
\* resolver ran once.
C24_ResolverBackfill ==
    /\ pc \in {"resolver", "resolved"}
    /\ steps <= 1
    /\ pc = "resolved" =>
         LET ctl == result.controllerName
             known == Truthy(ctl) /\ ~Includes(ctl, ".")
             before == ClassifiedRefs(vfContent[1].s)
         IN  /\ steps = 1
             /\ Len(result.fieldReferences) = Len(before)
             /\ \A i \in 1..Len(before) :
                   LET r == result.fieldReferences[i]
                       parts == Split(r.expression, ".")
                   IN  /\ r.expression = before[i].expression
                       /\ r.context = before[i].context
                       /\ Includes(r.expression, ".") =>
                             /\ r.sObjectName = parts[1]
                             /\ r.fieldName = JoinDot(Tail(parts))
                             /\ parts[1] \in Range(result.sObjectReferences)
                             /\ r.expression \in Range(result.detailedFieldReferences)
                       /\ (~Includes(r.expression, ".") /\ known) =>
                             /\ r.sObjectName = ctl
                             /\ r.fieldName = r.expression
                             /\ (ctl \o <<".">> \o r.expression) \in Range(result.detailedFieldReferences)
                       /\ (~Includes(r.expression, ".") /\ ~known) =>
                             /\ r.sObjectName = Undef
                             /\ r.fieldName = Undef

\* C24 witness: the resolver handled a dotted reference and an undotted one
\* under a known controller name
C24_Witness ==
    /\ pc = "resolved"
    /\ result.controllerName = <<"A">>
    /\ Len(result.fieldReferences) = 2
    /\ result.fieldReferences[1].sObjectName = <<"a">>
    /\ result.fieldReferences[1].fieldName = <<" ", "b", ".", " ", "c">>
    /\ result.fieldReferences[2].sObjectName = <<"A">>
    /\ result.fieldReferences[2].fieldName = <<"s">>
    /\ result.detailedFieldReferences = <<<<"a", ".", " ", "b", ".", " ", "c">>, <<"A", ".", "s">>>>

\* C25: when parse returns after an exception, also one raised after the
\* tree path had written to the result, the result is the one the fallback
\* extractors give on a new empty result for the same text.
C25_FallbackOnFreshResult ==
    (Done /\ threw) => result = FallbackExtraction(vfContent, createEmptyResult)

C28_BoundedAttempts ==
    \A i \in 1..Len(calls) :
       LET c == calls[i]
       IN  /\ c.invoked <= (IF c.options = <<>> THEN 3 ELSE c.options[1])
           /\ c.pc \in {"new", "awaiting", "sleeping", "done"}
           /\ c.returned <=> c.pc = "done"
           /\ c.pc \in {"awaiting", "sleeping"} => c.attempt = c.failures + (IF c.pc = "awaiting" THEN 1 ELSE 0)
           /\ c.invoked = c.failures + (IF c.pc = "awaiting" \/ c.got # Undef \/ c.saw401 THEN 1 ELSE 0)
           /\ c.saw401 => c.returned
           /\ c.returned =>
                 c.ret = (IF c.got # Undef THEN c.got
                          ELSE IF Truthy(cacheGet(c.cacheAfter, c.cacheKey))
                          THEN cacheGet(c.cacheAfter, c.cacheKey)
                          ELSE c.defaultValue)

\* C28 witness: a call with the default options returned the default after
\* three failed attempts, another returned the result of its attempt
C28_Witness ==
    \E i, j \in 1..Len(calls) :
       /\ calls[i].options = <<>> /\ calls[i].returned /\ calls[i].invoked = 3
       /\ calls[i].failures = 3 /\ calls[i].ret = DefaultText
       /\ calls[j].returned /\ calls[j].ret = AiText /\ calls[j].invoked = 1

\* C29: a call that found a truthy value under its key in the cache returned
\* that value, did not invoke aiCall and left the cache as it was; a call
\* whose aiCall gave a truthy result returned it with the result stored
\* under its key and saved; a call none of whose attempts succeeded wrote
\* nothing to the cache.
C29_CacheFrame ==
    \A i \in 1..Len(calls) :
       LET c == calls[i]
       IN  c.returned =>
             /\ Truthy(c.cacheAtEntry) =>
                   /\ c.ret = c.cacheAtEntry
                   /\ c.invoked = 0
                   /\ c.writes = <<>>
                   /\ c.cacheAfter = c.cacheBefore
             /\ c.got # Undef =>
                   /\ c.ret = c.got
                   /\ c.cacheAfter.entries[c.cacheKey] = c.got
                   /\ c.cacheAfter.saved[c.cacheKey] = c.got
             /\ c.got = Undef => c.writes = <<>>

\* C29 witness: one call returned the value it found in the cache, another
\* stored and returned the result of aiCall, a third case: all attempts failed
C29_Witness ==
    /\ Len(calls) = 2
    /\ calls[1].returned /\ calls[1].ret = CachedText /\ calls[1].invoked = 0
    /\ calls[2].returned /\ calls[2].ret = AiText /\ calls[2].failures = 2
    /\ cache.saved[calls[2].cacheKey] = AiText
    /\ cache.saved[calls[1].cacheKey] = CachedText

\* C30: when the AI generation of a call failed, the call returned the
\* parser-only markdown in the skeleton and the markdown is in the cache
\* under the key of the page for the calls that follow; a call for a page
\* whose AI generation failed in an earlier call returns the document built
\* from the cached value without invoking the AI generation; every returned
\* document is the skeleton with the placeholder line replaced by the
\* description.
C30_FallbackCached ==
    \A i \in 1..Len(calls) :
       LET c == calls[i]
           key == EnhancedCacheKey(c.page)
       IN  c.returned =>
             /\ c.aiFailed =>
                   /\ c.description = generateParserOnlyMarkdown(c.page)
                   /\ Truthy(cache.entries[key])
                   /\ (\A j \in (i + 1)..Len(calls) : calls[j].page = c.page => calls[j].pc = "new")
                      => cache.entries[key] = generateParserOnlyMarkdown(c.page)
             /\ c.afterFailure =>
                   /\ c.aiInvoked = 0
                   /\ Truthy(c.cachedAIResult)
                   /\ c.description = c.cachedAIResult
             /\ Len(c.ret) = Len(buildInitialMarkdownLines(c.page))
             /\ \A l \in 1..Len(c.ret) :
                   c.ret[l] = (IF l = 3 THEN c.description ELSE buildInitialMarkdownLines(c.page)[l])
             /\ placeholder \notin Range(c.ret)

\* C30 witness: the AI generation failed for a page, and a later call for the
\* same page returned the cached parser-only markdown without the AI
C30_Witness ==
    \E i, j \in 1..Len(calls) :
       /\ i < j
       /\ calls[i].page = calls[j].page
       /\ calls[i].returned /\ calls[i].aiFailed /\ calls[i].aiInvoked = 1
       /\ calls[j].returned /\ calls[j].aiInvoked = 0
       /\ calls[j].ret[3] = generateParserOnlyMarkdown(calls[j].page)

\* C11: in every returned result apexExpressions is in descending order of
\* complexity rank (2 with a "(", 1 with a "." and no "(", 0 otherwise).
C11_SortedByComplexity ==
    Done => \A i, j \in 1..Len(result.apexExpressions) :
               i < j => Complexity(result.apexExpressions[i]) >= Complexity(result.apexExpressions[j])

\* the entries the pieces of the text are to give
ExpectedScripts == UNION {Range(pieces[i].expect) : i \in 1..Len(pieces)}

ScriptTypes(res) == {res.scripts[i].type : i \in 1..Len(res.scripts)}

\* the text holds one script with a source, one inline script and one include directive
OneOfEachForm == Len(pieces) = 3 /\ Range(pieces) = {ExternalPiece, InlinePiece, IncludePiece}

\* C12: after one or more runs of the extractor, scripts holds an External URL
\* entry for each script element with a source, an Inline Script entry for
\* each other script element with a non-blank body (cut to 200 characters,
\* with an ellipsis only when cut) and a Static Resource entry for each include
\* directive with a value, and nothing else; no two entries have equal type
\* and value; a text with one of each form gives three entries, one of each type.
C12_ScriptForms ==
    (pc = "scripts" /\ steps >= 1) =>
      /\ Range(result.scripts) = ExpectedScripts
      /\ NoDuplicates(result.scripts)
      /\ OneOfEachForm =>
            /\ Len(result.scripts) = 3
            /\ ScriptTypes(result) = {"External URL", "Inline Script", "Static Resource"}

\* C12 witness: the extractor ran twice on the text with one of each form
C12_Witness ==
    /\ pc = "scripts"
    /\ steps = 2
    /\ OneOfEachForm
    /\ Len(result.scripts) = 3

\* the tags of the raw text that carry a standardController attribute
ControllerTags ==
    {i \in 1..Len(vfContent) :
        IsTagStart(vfContent[i]) /\ AttrOf(vfContent[i].attrs, "standardController") # Undef}

\* C13: when parse fell back to the regex extraction, the result has all its
\* fields and, if some tag of the raw text carries standardController="X",
\* controllerName is the X of the first such tag.
C13_FallbackController ==
    FallbackPath =>
      /\ CollectionFields \subseteq DOMAIN result
      /\ ControllerTags # {} =>
            \E i \in ControllerTags :
               /\ \A j \in ControllerTags : i <= j
               /\ result.controllerName = AttrOf(vfContent[i].attrs, "standardController")

\* C13 witness: the tree builder threw on a text whose only standardController
\* attribute is on an element below the root
C13_Witness ==
    /\ Done
    /\ threw
    /\ AttrOf(vfContent[1].attrs, "standardController") = Undef
    /\ result.controllerName = <<"B">>

\* the qualified names of the namespaced tags of the raw text
RawComponentNames ==
    {<<vfContent[i].ns, vfContent[i].name>> : i \in {j \in Range(TagStarts(vfContent)) : vfContent[j].ns # ""}}

\* C15: a content longer than the threshold goes to the simplified extraction,
\* which returns a result with the controller, the components and the
\* expressions of the raw text, and the tree builder is not invoked for it; a
\* content of at most the threshold goes to parse.
C15_OversizeRouting ==
    /\ contentLength > SizeThreshold =>
          /\ pc \in {"route", "simplified", "done"}
          /\ parsedData = <<>>
          /\ ~threw
          /\ Done => /\ ComponentNames(result) = RawComponentNames
                     /\ ControllerTags # {} => result.controllerName # Undef
    /\ (contentLength >= 1 /\ contentLength <= SizeThreshold) =>
          pc \in {"route", "start", "fallback", "catch", "assign", "prescan", "traverse", "done"}

\* the namespaced elements below the page root
NamespacedElems == {x \in 2..Len(parsedData) : parsedData[x].ns # ""}

\* C17: on the tree path components has exactly one entry for each namespaced
\* element below the page root, with the attributes of that element.
C17_OneComponentPerElement ==
    TreePath =>
      /\ Len(result.components) = Cardinality(NamespacedElems)
      /\ \A x \in NamespacedElems :
            \E c \in 1..Len(result.components) :
               /\ compElems[c] = <<x>>
               /\ result.components[c].namespace = parsedData[x].ns
               /\ result.components[c].name = parsedData[x].name
               /\ result.components[c].attributes = parsedData[x].attrs

\* the expressions classified into the result
ClassifiedItems(res) ==
    Range(res.apexExpressions) \cup {res.fieldReferences[r].expression : r \in 1..Len(res.fieldReferences)}

\* the expressions occurring in the text content and in the attribute values of element x
ExprsOfElem(T, x) ==
    Range(ExprMatches(T[x].text, 1))
    \cup UNION {Range(ExprMatches(T[x].attrs[k].v, 1)) : k \in 1..Len(T[x].attrs)}

\* C18: on the tree path every expression in the text content or in an
\* attribute value of an element below the page root is classified, into
\* apexExpressions or into fieldReferences.
C18_EveryExpressionClassified ==
    TreePath =>
      \A x \in 2..Len(parsedData) : ExprsOfElem(parsedData, x) \subseteq ClassifiedItems(result)

\* the elements with a rendered attribute
RenderedElems == {x \in 1..Len(parsedData) : AttrOf(parsedData[x].attrs, "rendered") # Undef}

\* C19: on the tree path, when the identifier r occurs once in the page, in
\* a rendered attribute, the result has exactly one FieldReference for r.
C19_RenderedScannedOnce ==
    (TreePath /\ Cardinality(RenderedElems) = 1) =>
      Len(SelectSeq(result.fieldReferences, LAMBDA ref : ref.expression = <<"r">>)) = 1

\* C14: two invocations of parse on the same text return equal results,
\* whatever ran before them or between them.
C14_Deterministic ==
    \A i, j \in 1..Len(calls) :
       (calls[i].returned /\ calls[j].returned /\ calls[i].vfContent = calls[j].vfContent)
       => calls[i].ret = calls[j].ret

\* C14 witness: two invocations on the page text have returned, the second
\* begun after the first, and an invocation on another text that began
\* between them is still in flight
C14_Witness ==
    /\ Len(calls) = 3
    /\ calls[1].vfContent = TreeText
    /\ calls[3].vfContent = TreeText
    /\ calls[2].vfContent = UntermText
    /\ calls[1].returned
    /\ calls[3].returned
    /\ calls[2].pc = "catch"
    /\ calls[1].res < calls[2].res
    /\ calls[2].res < calls[3].res
    /\ Len(calls[1].ret.components) = 2

\* C16: interleaved invocations get result objects of their own, each returns
\* what it returns when run alone, and what it returned is not changed by the
\* invocations still running.
C16_NoSharedState ==
    /\ \A i, j \in 1..Len(calls) :
          (i # j /\ calls[i].pc # "new" /\ calls[j].pc # "new") => calls[i].res # calls[j].res
    /\ \A i \in 1..Len(calls) :
          calls[i].returned =>
             /\ calls[i].ret = AloneResults[calls[i].vfContent]
             /\ heap[calls[i].res] = calls[i].ret

\* C16 witness: of three invocations on three different texts, one began
\* after the other two and has returned while those two are in the middle of
\* their work
C16_Witness ==
    /\ Len(calls) = 3
    /\ {calls[i].vfContent : i \in 1..3} = CallTexts
    /\ \E i, j, k \in 1..3 :
          /\ calls[i].vfContent = TreeText /\ calls[i].pc = "traverse" /\ Len(calls[i].frames) = 2
          /\ calls[j].vfContent = NoRootText /\ calls[j].pc = "fallback"
          /\ calls[k].vfContent = UntermText /\ calls[k].returned
          /\ calls[k].res > calls[i].res
          /\ calls[k].res > calls[j].res
          /\ Len(calls[k].ret.components) = 2

Classified == pc = "classified"

ExprPieces == SelectSeq(pieces, LAMBDA p : p.expr)

\* C10: a text with N expression occurrences gives exactly N classified items
\* (apexExpressions entries plus fieldReferences entries), every occurrence of
\* the form foo(...) is in apexExpressions, and every bare identifier is the
\* expression of a FieldReference.
C10_ClassifierCompleteness ==
    Classified =>
      /\ Len(result.apexExpressions) + Len(result.fieldReferences) = Len(ExprPieces)
      /\ \A i \in 1..Len(pieces) :
            /\ pieces[i].class = "function" => Trim(pieces[i].s) \in Range(result.apexExpressions)
            /\ pieces[i].class = "bare" =>
                  \E r \in 1..Len(result.fieldReferences) :
                     result.fieldReferences[r].expression = Trim(pieces[i].s)

\* C20: an expression that is no function call and holds a logical or
\* comparison token, with or without blanks around it, is added to
\* apexExpressions and gives no FieldReference.
C20_BooleanTokensClassified ==
    Classified =>
      \A i \in 1..Len(pieces) :
         pieces[i].class = "boolean" =>
            /\ Trim(pieces[i].s) \in Range(result.apexExpressions)
            /\ \A r \in 1..Len(result.fieldReferences) :
                  result.fieldReferences[r].expression # Trim(pieces[i].s)

\* C10 witness: a text of three occurrences, a function call and a bare identifier among them
C10_Witness ==
    /\ Classified
    /\ Len(ExprPieces) = 3
    /\ \E i, j \in 1..Len(pieces) : pieces[i].class = "function" /\ pieces[j].class = "bare"
    /\ Len(result.apexExpressions) >= 1
    /\ Len(result.fieldReferences) >= 1

=============================================================================
